---- MODULE Spec2Model ----
(***************************************************************************)
(* Model of the lrc-mcp command bridge                                     *)
(* (src/src/lrc_mcp/services/lrc_bridge.py): the in-memory CommandQueue    *)
(* with idempotent enqueue, leased claim, completion and blocking wait.    *)
(*                                                                         *)
(* Time is a discrete clock that advances by TickStep.  Every method that  *)
(* runs entirely under self._lock is one action.  claim and                *)
(* wait_for_result read the clock before they take the lock, so the value  *)
(* they use inside the lock is any clock value up to the current one.      *)
(* wait_for_result blocks outside the lock and is split at the points      *)
(* where other threads can interleave.                                     *)
(***************************************************************************)
EXTENDS Integers, Sequences, FiniteSets, TLC

(* ------------------------------ bounds --------------------------------- *)
MaxCmds == 2        \* number of uuid4 ids enqueue may hand out
MaxActive == 2      \* number of commands active at a time
MaxTime == 60       \* the clock stops here
TickStep == 30      \* seconds per clock tick
MaxEvents == 2      \* number of threading.Event objects wait_for_result may create
MaxCompletes == 2   \* number of complete calls
WaitHorizon == 30   \* the clock stops here while threads are waiting
MaxNotifies == 3    \* number of notify_updated calls
MaxWatchNotifies == 1  \* number of notify_updated calls of the log and status watchers
MaxStarts == 1      \* number of times the watchers are started
SubsPerSec == 2     \* clock readings per second
MaxHeartbeats == 2  \* number of set_heartbeat calls

(* ------------------------- program constants --------------------------- *)
VISIBILITY_TIMEOUT_SECONDS == 30
IDEMPOTENCY_TTL_SECONDS == 30

(* --------------------------- value domains ----------------------------- *)
\* Optional[T]: None is the empty tuple, a present value a 1-tuple.
None == << >>
Some(x) == << x >>

Workers == {"w1", "w2"}
Threads == {"t1", "t2"}
\* idempotency_key argument: absent, the empty string, or a non-empty string
Keys == {None, Some(""), Some("k")}
Submissions == {[type |-> "echo", payload |-> "p1"], [type |-> "x", payload |-> "p2"]}
Outcomes == {[ok |-> TRUE, result |-> Some("r1"), error |-> None],
             [ok |-> FALSE, result |-> None, error |-> Some("e1")]}
PlainSubmission == [type |-> "echo", payload |-> "p1"]
OkOutcome == [ok |-> TRUE, result |-> Some("r1"), error |-> None]
MaxItemsArgs == {0, 1, 2}
\* timeout_seconds: wait indefinitely, or for one clock tick
WaitTimeouts == {None, Some(TickStep)}
\* a command id that enqueue never generated (uuid4 ids are 1, 2, ...)
BogusId == 0

\* ServerSession handles
Sessions == {"s1", "s2"}
\* resource identifiers
LogsUri == "lrc://logs/plugin"
StatusUri == "lrc://status/lightroom"
CollectionsUri == "lrc://catalog/collections"
Uris == {LogsUri, StatusUri, CollectionsUri}
\* the tasks that call notify_updated
NotifyCallers == {"c1", "c2"}
\* the watcher tasks
WatcherNames == {"log", "status", "collections"}
EmitTasks == NotifyCallers \cup WatcherNames

VARIABLES
  clock,               \* datetime.now(timezone.utc)
  queue,               \* CommandQueue._queue
  commands,            \* CommandQueue._commands
  results,             \* CommandQueue._results
  waiters,             \* CommandQueue._waiters: id -> list of events
  idempotency_index,   \* CommandQueue._idempotency_index: key -> <<id, ts>>
  nextId,              \* the next uuid4 value
  nextEvt,             \* the next threading.Event identity
  evtSet,              \* the events whose flag is set
  waiter,              \* per thread: position inside wait_for_result()
  issued,              \* history: id -> how and when enqueue created it
  leases,              \* history: the unexpired leases claim() handed out
  handed,              \* history: ids handed to a second worker after a lease expired
  claimedOnce,         \* history: active ids that claim() has returned at least once
  resubmitted,         \* history: ids an enqueue returned again later than their creation
  completedIds,        \* history: ids for which complete() has returned
  numCompletes,        \* history: number of complete() calls
  ret,                 \* history: the latest call made at the current clock value
  session,             \* ResourceNotifier._session
  subscribed_uris,     \* ResourceNotifier._subscribed_uris
  buffered,            \* ResourceNotifier._buffered
  emitting,            \* per caller: the notify_updated call suspended before its send
  flushTasks,          \* the _flush_many tasks attach_session created, each its remaining uris
  delivered,           \* history: the send_resource_updated calls, in order
  queued,              \* history: the uris notify_updated buffered, in order
  numNotifies,         \* history: number of notify_updated calls
  watchersUp,          \* `_WATCHERS is not None`
  stop_event,          \* _WatcherState.stop_event.is_set()
  wpc,                 \* per watcher task: its position in the loop
  last,                \* per watcher task: last_sig / last_seen / last_hash
  wcmd,                \* the collections watcher's command_id and wait event
  ctl,                 \* the task that calls start_watchers / stop_watchers
  numStarts,           \* history: number of times watchers were started
  last_heartbeat,      \* HeartbeatStore._last_heartbeat
  subsec,              \* the part of datetime.now() below the clock's whole seconds
  tool,                \* per thread: the tool or resource call it is inside
  heartbeats,          \* history: the heartbeats set_heartbeat returned, in order
  observed             \* history: what the latest get_last_heartbeat returned

queueVars == <<clock, queue, commands, results, waiters, idempotency_index, nextId,
               nextEvt, evtSet, waiter, issued, leases, handed, claimedOnce, completedIds,
               numCompletes, resubmitted>>

notifierVars == <<session, subscribed_uris, buffered, emitting, flushTasks, delivered,
                  queued, numNotifies>>

watcherVars == <<watchersUp, stop_event, wpc, last, wcmd, ctl, numStarts>>

handlerVars == <<last_heartbeat, subsec, tool, heartbeats, observed>>

vars == <<queueVars, ret, notifierVars, watcherVars, handlerVars>>

NoCall == [op |-> "none"]

(* ----------------------------- dict helpers ---------------------------- *)
EmptyDict == << >>
DictSet(d, k, v) == [x \in (DOMAIN d) \cup {k} |-> IF x = k THEN v ELSE d[x]]
DictDel(d, k) == [x \in (DOMAIN d) \ {k} |-> d[x]]
DictGet(d, k) == IF k \in DOMAIN d THEN Some(d[k]) ELSE None

InSeq(x, s) == \E i \in 1..Len(s) : s[i] = x
SeqRange(s) == {s[i] : i \in 1..Len(s)}

\* list.remove(x): drops the first occurrence, ValueError swallowed by the caller
RECURSIVE RemoveFirst(_, _)
RemoveFirst(s, x) ==
  IF s = << >> THEN << >>
  ELSE IF Head(s) = x THEN Tail(s)
  ELSE << Head(s) >> \o RemoveFirst(Tail(s), x)

\* dict iteration order is insertion order; ids are inserted in increasing order
RECURSIVE InsertionOrder(_)
InsertionOrder(S) ==
  IF S = {} THEN << >>
  ELSE LET m == CHOOSE x \in S : \A y \in S : x <= y
       IN << m >> \o InsertionOrder(S \ {m})

(* ------------------------------ enqueue -------------------------------- *)
\* `if idempotency_key`: None and "" are both falsy
KeyGiven(key) == key # None /\ key[1] # ""

IdemStale(ts, now) == ts < now - IDEMPOTENCY_TTL_SECONDS

CleanupIdempotency(index, now) ==
  [k \in {k \in DOMAIN index : ~IdemStale(index[k][2], now)} |-> index[k]]

StillKnown_ActiveOnly(cmd_id, cmds, res) == cmd_id \in DOMAIN cmds

StillKnown(cmd_id, cmds, res) == cmd_id \in DOMAIN cmds \/ cmd_id \in DOMAIN res

NewCommand(cmd_id, sub, key, now) ==
  [id |-> cmd_id, type |-> sub.type, payload |-> sub.payload, enqueued_at |-> now,
   visibility_deadline |-> None, claimed_by |-> None, idempotency_key |-> key]

EnqueueDedup_Upsert(cmds, q, index, cmd_id, sub) ==
  [commands |-> IF cmd_id \in DOMAIN cmds
                THEN [cmds EXCEPT ![cmd_id].type = sub.type, ![cmd_id].payload = sub.payload]
                ELSE cmds,
   queue |-> q, index |-> index, id |-> cmd_id, created |-> FALSE]

EnqueueDedup_Extend(cmds, q, index, cmd_id, sub) ==
  [commands |-> cmds, queue |-> q,
   index |-> [k \in DOMAIN index |->
                IF index[k][1] = cmd_id
                THEN << cmd_id, index[k][2] + IDEMPOTENCY_TTL_SECONDS >> ELSE index[k]],
   id |-> cmd_id, created |-> FALSE]

\* the early `return cmd_id`: nothing but the pruned index is written
EnqueueDedup(cmds, q, index, cmd_id, sub) ==
  [commands |-> cmds, queue |-> q, index |-> index, id |-> cmd_id, created |-> FALSE]

EnqueueCreate_NoAppend(cmds, q, index, cmd_id, sub, key, now) ==
  [commands |-> DictSet(cmds, cmd_id, NewCommand(cmd_id, sub, key, now)),
   queue |-> q,
   index |-> IF KeyGiven(key) THEN DictSet(index, key[1], <<cmd_id, now>>) ELSE index,
   id |-> cmd_id, created |-> TRUE]

EnqueueCreate_Lifo(cmds, q, index, cmd_id, sub, key, now) ==
  [commands |-> DictSet(cmds, cmd_id, NewCommand(cmd_id, sub, key, now)),
   queue |-> << cmd_id >> \o q,
   index |-> IF KeyGiven(key) THEN DictSet(index, key[1], <<cmd_id, now>>) ELSE index,
   id |-> cmd_id, created |-> TRUE]

EnqueueCreate(cmds, q, index, cmd_id, sub, key, now) ==
  [commands |-> DictSet(cmds, cmd_id, NewCommand(cmd_id, sub, key, now)),
   queue |-> Append(q, cmd_id),
   index |-> IF KeyGiven(key) THEN DictSet(index, key[1], <<cmd_id, now>>) ELSE index,
   id |-> cmd_id, created |-> TRUE]

EnqueueResult(cmds, q, res, index, fresh, sub, key, now) ==
  LET idx == CleanupIdempotency(index, now)
  IN IF KeyGiven(key) /\ key[1] \in DOMAIN idx /\ StillKnown(idx[key[1]][1], cmds, res)
     THEN EnqueueDedup(cmds, q, idx, idx[key[1]][1], sub)
     ELSE EnqueueCreate(cmds, q, idx, fresh, sub, key, now)

EnqueueEffect(sub, key) ==
  LET r == EnqueueResult(commands, queue, results, idempotency_index, nextId, sub, key, clock)
  IN /\ r.created => (nextId <= MaxCmds /\ Cardinality(DOMAIN commands) < MaxActive)
     /\ commands' = r.commands
     /\ queue' = r.queue
     /\ idempotency_index' = r.index
     /\ nextId' = IF r.created THEN nextId + 1 ELSE nextId
     /\ issued' = IF r.created
                  THEN DictSet(issued, r.id, [key |-> key, at |-> clock, type |-> sub.type,
                                              payload |-> sub.payload])
                  ELSE issued
     /\ resubmitted' = IF ~r.created /\ issued[r.id].at < clock
                       THEN resubmitted \cup {r.id} ELSE resubmitted
     /\ ret' = [op |-> "enqueue", sub |-> sub, val |-> r.id]
     /\ UNCHANGED <<clock, results, waiters, nextEvt, evtSet, waiter,
                    leases, handed, claimedOnce, completedIds, numCompletes>>

Enqueue(sub, key) ==
  /\ EnqueueEffect(sub, key)
  /\ UNCHANGED <<notifierVars, watcherVars>>
  /\ UNCHANGED handlerVars

(* ------------------------------- claim --------------------------------- *)
VisibilityExpired_AnyDeadline(cmd, now) == cmd.visibility_deadline # None

VisibilityExpired(cmd, now) ==
  cmd.visibility_deadline # None /\ cmd.visibility_deadline[1] <= now

Requeue_Front(q, cmd_id) == IF InSeq(cmd_id, q) THEN q ELSE << cmd_id >> \o q

Requeue_Forget(q, cmd_id) == q

Requeue(q, cmd_id) == IF InSeq(cmd_id, q) THEN q ELSE Append(q, cmd_id)

RECURSIVE RequeueExpired(_, _, _, _)
RequeueExpired(ids, cmds, q, now) ==
  IF ids = << >> THEN [commands |-> cmds, queue |-> q]
  ELSE LET cmd == cmds[Head(ids)]
       IN IF VisibilityExpired(cmd, now)
          THEN RequeueExpired(Tail(ids),
                 [cmds EXCEPT ![cmd.id] = [cmd EXCEPT !.visibility_deadline = None,
                                                      !.claimed_by = None]],
                 Requeue(q, cmd.id), now)
          ELSE RequeueExpired(Tail(ids), cmds, q, now)

RECURSIVE ClaimLoop(_, _, _, _, _, _)
ClaimLoop(q, cmds, claimed, worker, max_items, now) ==
  IF ~(0 < Len(q) /\ Len(claimed) < max_items)
  THEN [commands |-> cmds, queue |-> q, claimed |-> claimed]
  ELSE LET cmd_id == Head(q)
       IN IF cmd_id \notin DOMAIN cmds
          THEN ClaimLoop(Tail(q), cmds, claimed, worker, max_items, now)
          ELSE IF cmds[cmd_id].visibility_deadline # None
          THEN ClaimLoop(Tail(q), cmds, claimed, worker, max_items, now)
          ELSE LET cmd == [cmds[cmd_id] EXCEPT
                             !.claimed_by = Some(worker),
                             !.visibility_deadline = Some(now + VISIBILITY_TIMEOUT_SECONDS)]
               IN ClaimLoop(Tail(q), [cmds EXCEPT ![cmd_id] = cmd],
                            Append(claimed, cmd), worker, max_items, now)

ClaimResult(q, cmds, worker, max_items, now) ==
  LET rq == RequeueExpired(InsertionOrder(DOMAIN cmds), cmds, q, now)
  IN ClaimLoop(rq.queue, rq.commands, << >>, worker, max_items, now)

\* the clock values a call that read the clock before taking the lock may hold
ClockReads == {n \in {clock - TickStep, clock} : n >= 0}

\* the leases a claim() return hands to its caller
LeasesOf(claimed) ==
  {[id |-> claimed[i].id, worker |-> claimed[i].claimed_by[1],
    deadline |-> claimed[i].visibility_deadline[1]] : i \in 1..Len(claimed)}

\* claim(): `max_items <= 0` returns at once; otherwise `now` was read before
\* the lock was taken and the body runs under the lock
Claim(w, m, now) ==
  /\ IF m <= 0
     THEN /\ now = clock
          /\ ret' = [op |-> "claim", worker |-> w, max_items |-> m, val |-> << >>]
          /\ UNCHANGED <<queue, commands, leases, handed, claimedOnce>>
     ELSE LET r == ClaimResult(queue, commands, w, m, now)
          IN /\ queue' = r.queue
             /\ commands' = r.commands
             /\ leases' = leases \cup {l \in LeasesOf(r.claimed) : l.deadline > clock}
             /\ handed' = handed \cup
                  {l.id : l \in {x \in LeasesOf(r.claimed) :
                                   /\ VisibilityExpired(commands[x.id], now)
                                   /\ commands[x.id].claimed_by # Some(w)}}
             /\ claimedOnce' = claimedOnce \cup {l.id : l \in LeasesOf(r.claimed)}
             /\ ret' = [op |-> "claim", worker |-> w, max_items |-> m,
                        val |-> [i \in 1..Len(r.claimed) |-> r.claimed[i].id]]
  /\ UNCHANGED <<clock, results, waiters, idempotency_index, nextId, nextEvt, evtSet,
                 waiter, issued, completedIds, numCompletes>>
  /\ UNCHANGED <<notifierVars, watcherVars>>
  /\ UNCHANGED handlerVars
  /\ UNCHANGED resubmitted

(* ------------------------------ complete ------------------------------- *)
MakeResult_OkAlways(outcome, now) ==
  [ok |-> TRUE, result |-> outcome.result, error |-> outcome.error, completed_at |-> now]

MakeResult_DropError(outcome, now) ==
  [ok |-> outcome.ok, result |-> outcome.result, error |-> None, completed_at |-> now]

MakeResult(outcome, now) ==
  [ok |-> outcome.ok, result |-> outcome.result, error |-> outcome.error,
   completed_at |-> now]

StoreResult_Drop(res, command_id, outcome, now) == res

StoreResult_FirstWins(res, command_id, outcome, now) ==
  IF command_id \in DOMAIN res THEN res ELSE DictSet(res, command_id, MakeResult(outcome, now))

StoreResult(res, command_id, outcome, now) ==
  DictSet(res, command_id, MakeResult(outcome, now))

SignalWaiters_Forget(evts, wtrs, command_id) == evts

SignalWaiters_All(evts, wtrs, command_id) ==
  evts \cup UNION {SeqRange(wtrs[k]) : k \in DOMAIN wtrs}

\* `for evt in self._waiters.pop(command_id, []): evt.set()`
SignalWaiters(evts, wtrs, command_id) ==
  IF command_id \in DOMAIN wtrs THEN evts \cup SeqRange(wtrs[command_id]) ELSE evts

PopWaiters(wtrs, command_id) == DictDel(wtrs, command_id)

PopCommand_Older(cmds, command_id) ==
  [x \in {y \in DOMAIN cmds : y > command_id} |-> cmds[x]]

PopCommand(cmds, command_id) == DictDel(cmds, command_id)

DequeueCompleted_Head(q, command_id) == IF q = << >> THEN q ELSE Tail(q)

DequeueCompleted_Keep(q, command_id) == q

DequeueCompleted(q, command_id) == RemoveFirst(q, command_id)

IssuedIds == 1..(nextId - 1)
KnownIds == IssuedIds \cup {BogusId}

Complete(command_id, outcome) ==
  /\ numCompletes < MaxCompletes
  /\ commands' = PopCommand(commands, command_id)
  /\ results' = StoreResult(results, command_id, outcome, clock)
  /\ evtSet' = SignalWaiters(evtSet, waiters, command_id)
  /\ waiters' = PopWaiters(waiters, command_id)
  /\ queue' = DequeueCompleted(queue, command_id)
  /\ completedIds' = completedIds \cup {command_id}
  /\ numCompletes' = numCompletes + 1
  /\ ret' = [op |-> "complete", id |-> command_id, outcome |-> outcome,
             prev |-> DictGet(results, command_id)]
  /\ claimedOnce' = claimedOnce \ {command_id}
  /\ UNCHANGED <<clock, idempotency_index, nextId, nextEvt, waiter, issued, leases, handed>>
  /\ UNCHANGED <<notifierVars, watcherVars>>
  /\ UNCHANGED handlerVars
  /\ UNCHANGED resubmitted

(* ----------------------------- get_result ------------------------------ *)
GetResult_Consume(command_id) ==
  /\ ret' = [op |-> "get_result", id |-> command_id, val |-> DictGet(results, command_id)]
  /\ results' = DictDel(results, command_id)
  /\ UNCHANGED <<clock, queue, commands, waiters, idempotency_index, nextId,
                 nextEvt, evtSet, waiter, issued, leases, handed, claimedOnce, completedIds, numCompletes>>
  /\ UNCHANGED <<notifierVars, watcherVars>>
  /\ UNCHANGED handlerVars
  /\ UNCHANGED resubmitted

GetResult(command_id) ==
  /\ ret' = [op |-> "get_result", id |-> command_id, val |-> DictGet(results, command_id)]
  /\ UNCHANGED <<clock, queue, commands, results, waiters, idempotency_index, nextId,
                 nextEvt, evtSet, waiter, issued, leases, handed, claimedOnce, completedIds, numCompletes>>
  /\ UNCHANGED <<notifierVars, watcherVars>>
  /\ UNCHANGED handlerVars
  /\ UNCHANGED resubmitted

(* --------------------------- wait_for_result --------------------------- *)
IdleWaiter == [pc |-> "idle", command_id |-> BogusId, deadline |-> 0, timed |-> TRUE,
               evt |-> 0]

\* `deadline = self._now() + timedelta(seconds=timeout_seconds or 0)`
WaitDeadline(now, timeout_seconds) ==
  now + (IF timeout_seconds = None THEN 0 ELSE timeout_seconds[1])

RegisterWaiter(wtrs, command_id, evt) ==
  DictSet(wtrs, command_id,
          (IF command_id \in DOMAIN wtrs THEN wtrs[command_id] ELSE << >>) \o << evt >>)

WaitReturnValue_ErrorOnTimeout(res, command_id) ==
  IF command_id \in DOMAIN res THEN Some(res[command_id])
  ELSE Some([ok |-> FALSE, result |-> None, error |-> Some("timeout"), completed_at |-> 0])

WaitReturnValue(res, command_id) == DictGet(res, command_id)

\* wait_for_result() up to the end of its first critical section: the deadline
\* (from a clock read before the lock), then the fast path or the registration
\* of a new event
WaitRegister(t, command_id, timeout_seconds, now) ==
  /\ waiter[t].pc = "idle"
  /\ IF command_id \in DOMAIN results
     THEN /\ ret' = [op |-> "wait_for_result", id |-> command_id,
                     val |-> Some(results[command_id]), woke |-> "fast"]
          /\ UNCHANGED <<waiter, waiters, nextEvt>>
     ELSE /\ nextEvt <= MaxEvents
          /\ waiters' = RegisterWaiter(waiters, command_id, nextEvt)
          /\ nextEvt' = nextEvt + 1
          /\ waiter' = [waiter EXCEPT ![t] =
                          [pc |-> "waiting", command_id |-> command_id,
                           deadline |-> WaitDeadline(now, timeout_seconds),
                           timed |-> timeout_seconds # None, evt |-> nextEvt]]
          /\ UNCHANGED ret
  /\ UNCHANGED <<clock, queue, commands, results, idempotency_index, nextId, evtSet,
                 issued, leases, handed, claimedOnce, completedIds, numCompletes>>
  /\ UNCHANGED <<notifierVars, watcherVars>>
  /\ UNCHANGED handlerVars
  /\ UNCHANGED resubmitted

\* evt.wait(remaining) returns once the event is set or the deadline is reached;
\* evt.wait() without a timeout returns only once the event is set
WaitWakeEnabled(w, evts, now) ==
  w.evt \in evts \/ (w.timed /\ now >= w.deadline)

WaitWake(t) ==
  /\ waiter[t].pc = "waiting"
  /\ WaitWakeEnabled(waiter[t], evtSet, clock)
  /\ waiter' = [waiter EXCEPT ![t].pc = "woken"]
  /\ UNCHANGED <<clock, queue, commands, results, waiters, idempotency_index, nextId,
                 nextEvt, evtSet, issued, leases, handed, claimedOnce, completedIds, numCompletes, ret>>
  /\ UNCHANGED <<notifierVars, watcherVars>>
  /\ UNCHANGED handlerVars
  /\ UNCHANGED resubmitted

WaitReturn_Unregister(t) ==
  /\ waiter[t].pc = "woken"
  /\ ret' = [op |-> "wait_for_result", id |-> waiter[t].command_id,
             val |-> WaitReturnValue(results, waiter[t].command_id),
             woke |-> IF ~waiter[t].timed THEN "untimed"
                      ELSE IF clock >= waiter[t].deadline THEN "late" ELSE "early"]
  /\ waiter' = [waiter EXCEPT ![t] = IdleWaiter]
  /\ waiters' = [id \in DOMAIN waiters |->
                  SelectSeq(waiters[id], LAMBDA e : e # waiter[t].evt)]
  /\ UNCHANGED <<clock, queue, commands, results, idempotency_index, nextId,
                 nextEvt, evtSet, issued, leases, handed, claimedOnce, completedIds, numCompletes>>
  /\ UNCHANGED <<notifierVars, watcherVars>>
  /\ UNCHANGED handlerVars
  /\ UNCHANGED resubmitted

\* second critical section: `return self._results.get(command_id)`
WaitReturn(t) ==
  /\ waiter[t].pc = "woken"
  /\ ret' = [op |-> "wait_for_result", id |-> waiter[t].command_id,
             val |-> WaitReturnValue(results, waiter[t].command_id),
             woke |-> IF ~waiter[t].timed THEN "untimed"
                      ELSE IF clock >= waiter[t].deadline THEN "late" ELSE "early"]
  /\ waiter' = [waiter EXCEPT ![t] = IdleWaiter]
  /\ UNCHANGED <<clock, queue, commands, results, waiters, idempotency_index, nextId,
                 nextEvt, evtSet, issued, leases, handed, claimedOnce, completedIds, numCompletes>>
  /\ UNCHANGED <<notifierVars, watcherVars>>
  /\ UNCHANGED handlerVars
  /\ UNCHANGED resubmitted

(* ------------------------------- clock --------------------------------- *)
Tick ==
  /\ clock + TickStep <= MaxTime
  /\ clock' = clock + TickStep
  /\ leases' = {l \in leases : l.deadline > clock'}
  /\ ret' = NoCall
  /\ UNCHANGED <<queue, commands, results, waiters, idempotency_index, nextId, nextEvt,
                 evtSet, waiter, issued, handed, claimedOnce, completedIds, numCompletes>>
  /\ UNCHANGED <<notifierVars, watcherVars>>
  /\ UNCHANGED handlerVars
  /\ UNCHANGED resubmitted

\* the clock moves on by less than a second
SubTick ==
  /\ subsec + 1 < SubsPerSec
  /\ subsec' = subsec + 1
  /\ ret' = NoCall
  /\ UNCHANGED <<last_heartbeat, tool, heartbeats, observed>>
  /\ UNCHANGED <<queueVars, notifierVars, watcherVars>>

(* --------------------------- HeartbeatStore ---------------------------- *)
\* datetime.now(timezone.utc) and timedelta(seconds=n), in units of 1/SubsPerSec s
Now == clock * SubsPerSec + subsec
Seconds(n) == n * SubsPerSec

PluginVersions == {"0.1.0", "0.2.0"}
CatalogPaths == {None, Some("a.lrcat")}
\* sent_at_iso: absent, the empty string, or a string written as
\* <<date and time, zone suffix>>
SentAtInputs == {None, Some(<< "", "" >>),
                 Some(<< "1970-01-01T00:00:30", "Z" >>),
                 Some(<< "1970-01-01T00:00:30", "+00:00" >>),
                 Some(<< "invalid-date", "" >>)}

\* `sent_at_iso.replace("Z", "+00:00")`
ReplaceZ(iso) == << iso[1], IF iso[2] = "Z" THEN "+00:00" ELSE iso[2] >>

\* datetime.fromisoformat: a datetime, or ValueError
FromIsoFormat(iso) ==
  IF iso[1] = "1970-01-01T00:00:30" /\ iso[2] \in {"", "+00:00"}
  THEN [ok |-> TRUE, at |-> 30, aware |-> iso[2] # ""]
  ELSE [ok |-> FALSE, at |-> 0, aware |-> FALSE]

ParseSentAt_Epoch(sent_at_iso) ==
  IF sent_at_iso = None \/ sent_at_iso = Some(<< "", "" >>) THEN None
  ELSE LET r == FromIsoFormat(ReplaceZ(sent_at_iso[1]))
       IN Some([at |-> r.at, aware |-> r.aware])

\* `if sent_at_iso:` then the parse, `except Exception: sent_at = None`
ParseSentAt(sent_at_iso) ==
  IF sent_at_iso = None \/ sent_at_iso = Some(<< "", "" >>) THEN None
  ELSE LET r == FromIsoFormat(ReplaceZ(sent_at_iso[1]))
       IN IF r.ok THEN Some([at |-> r.at, aware |-> r.aware]) ELSE None

MakeHeartbeat(plugin_version, catalog_path, sent_at_iso, now) ==
  [plugin_version |-> plugin_version, lr_version |-> "13.0", catalog_path |-> catalog_path,
   received_at |-> now, sent_at |-> ParseSentAt(sent_at_iso)]

StoreHeartbeat_KeepFirst(cur, heartbeat) == IF cur = None THEN Some(heartbeat) ELSE cur

\* `self._last_heartbeat = heartbeat`
StoreHeartbeat(cur, heartbeat) == Some(heartbeat)

\* the clock values a set_heartbeat call that read the clock before taking the
\* lock may hold
HeartbeatReads == {n \in {Now - Seconds(TickStep), Now} : n >= 0}

\* set_heartbeat(): `received_at` is read first, the store is written under the lock
SetHeartbeat(plugin_version, catalog_path, sent_at_iso, now) ==
  /\ Len(heartbeats) < MaxHeartbeats
  /\ LET heartbeat == MakeHeartbeat(plugin_version, catalog_path, sent_at_iso, now)
     IN /\ last_heartbeat' = StoreHeartbeat(last_heartbeat, heartbeat)
        /\ heartbeats' = Append(heartbeats, heartbeat)
        /\ ret' = [op |-> "set_heartbeat", sent_at_iso |-> sent_at_iso, val |-> heartbeat]
  /\ UNCHANGED <<subsec, tool, observed>>
  /\ UNCHANGED <<queueVars, notifierVars, watcherVars>>

GetLastHeartbeat ==
  /\ ret' = [op |-> "get_last_heartbeat", val |-> last_heartbeat]
  /\ observed' = last_heartbeat
  /\ UNCHANGED <<last_heartbeat, subsec, tool, heartbeats>>
  /\ UNCHANGED <<queueVars, notifierVars, watcherVars>>

\* what a tool or resource call holds while it is not running
IdleTool == [pc |-> "idle", kind |-> "none", wait_timeout_sec |-> 0, command_id |-> BogusId]

(* ------------------------ liveness gate and tools ---------------------- *)
\* adapters/collections.py and adapters/test.py: `if not heartbeat`, then
\* `if heartbeat.received_at < now - timedelta(seconds=30)`
IsLightroomRunning(hb, now) ==
  hb # None /\ ~(hb[1].received_at < now - Seconds(30))

\* resources.py: `age = int((now - hb.received_at).total_seconds())`, then
\* `age <= seconds`
HeartbeatFresh(hb, now) ==
  hb # None /\ ((now - hb[1].received_at) \div SubsPerSec) <= 30

\* notifications.py: `age_s = (now - hb.received_at).total_seconds()`, then
\* `age_s <= fresh_seconds`
WatcherIsRunning(hb, now) ==
  hb # None /\ now - hb[1].received_at <= Seconds(30)

\* the gated calls: the collection-set tool (function=list), the run-tests
\* tool, the read of lrc://catalog/collections
ToolKinds == {"collection_set", "run_tests", "resource"}
\* wait_timeout_sec: absent, negative, zero, positive
WaitArgs == {None, Some(-1), Some(0), Some(TickStep)}
DependencyMessage ==
  "Lightroom Classic is not running or plugin is not connected. Please start Lightroom and ensure the lrc-mcp plugin is loaded."

GatePasses(kind, hb, now) ==
  IF kind = "resource" THEN HeartbeatFresh(hb, now) ELSE IsLightroomRunning(hb, now)

\* what each call returns when its gate fails
DependencyError(kind) ==
  CASE kind = "collection_set" ->
         [status |-> "error", result |-> None, command_id |-> None,
          error |-> Some(DependencyMessage)]
    [] kind = "run_tests" ->
         [status |-> "error", command_id |-> None,
          message |-> "Lightroom dependency check failed",
          error |-> Some(DependencyMessage)]
    [] OTHER -> [error |-> Some("Lightroom Classic not running or plugin not connected")]

\* `if wait_timeout_sec is not None: if ... wait_timeout_sec < 0: 5` / `else: 5`;
\* the resource read waits 3 s, the run-tests tool does not wait
WaitTimeoutOf(kind, wait_arg) ==
  CASE kind = "collection_set" -> IF wait_arg = None \/ wait_arg[1] < 0 THEN 5 ELSE wait_arg[1]
    [] kind = "run_tests" -> 0
    [] OTHER -> 3

ToolSubmission(kind) ==
  CASE kind = "collection_set" ->
         [type |-> "collection_set.list", payload |-> "{parent_path,include_nested}"]
    [] kind = "run_tests" -> [type |-> "run_tests", payload |-> "{}"]
    [] OTHER -> [type |-> "collection.list", payload |-> "{}"]

ErrorOrUnknown_Raw(error) == error

\* `result.error or "Unknown error"`
ErrorOrUnknown(error) ==
  IF error = None \/ error = Some("") THEN Some("Unknown error") ELSE error

PendingResponse_Error(command_id) ==
  [status |-> "error", result |-> None, command_id |-> Some(command_id),
   error |-> Some("timeout")]

PendingResponse(command_id) ==
  [status |-> "pending", result |-> None, command_id |-> Some(command_id), error |-> None]

\* what the plugin may post as the result of a command (ResultPayload: ok, and
\* result and error each optional): success with a payload, success without,
\* failure with an error string, with none, with the empty string
ToolOutcomes ==
  {[ok |-> TRUE, result |-> Some("r1"), error |-> None],
   [ok |-> TRUE, result |-> None, error |-> None],
   [ok |-> TRUE, result |-> None, error |-> Some("e1")],
   [ok |-> FALSE, result |-> None, error |-> Some("e1")],
   [ok |-> FALSE, result |-> Some("r1"), error |-> Some("e1")],
   [ok |-> FALSE, result |-> None, error |-> None],
   [ok |-> FALSE, result |-> None, error |-> Some("")]}

\* what the call returns for the value `res` of wait_for_result
ToolResponse(kind, command_id, res) ==
  CASE kind = "collection_set" ->
         IF res = None THEN PendingResponse(command_id)
         ELSE IF res[1].ok /\ res[1].result # None
         THEN [status |-> "ok", result |-> res[1].result, command_id |-> Some(command_id),
               error |-> None]
         ELSE [status |-> "error", result |-> None, command_id |-> Some(command_id),
               error |-> ErrorOrUnknown(res[1].error)]
    [] kind = "run_tests" ->
         [status |-> "ok", command_id |-> Some(command_id),
          message |-> "Test suite started - check plugin logs for results", error |-> None]
    [] OTHER ->
         IF res # None /\ res[1].ok /\ res[1].result # None
         THEN [data |-> res[1].result]
         ELSE [status |-> "pending", message |-> "No snapshot available yet"]

CallReturn(t, kind, val) == [op |-> "call", thread |-> t, kind |-> kind, val |-> val]

\* a call up to the end of its dependency check
ToolGate(t, kind, wait_arg) ==
  /\ tool[t].pc = "idle"
  /\ waiter[t].pc = "idle"
  /\ IF GatePasses(kind, last_heartbeat, Now)
     THEN /\ tool' = [tool EXCEPT ![t] =
                        [pc |-> "gated", kind |-> kind,
                         wait_timeout_sec |-> WaitTimeoutOf(kind, wait_arg),
                         command_id |-> BogusId]]
          /\ UNCHANGED ret
     ELSE /\ ret' = CallReturn(t, kind, DependencyError(kind))
          /\ UNCHANGED tool
  /\ UNCHANGED <<last_heartbeat, subsec, heartbeats, observed>>
  /\ UNCHANGED <<queueVars, notifierVars, watcherVars>>

\* `command_id = queue.enqueue(type=..., payload=...)`
ToolEnqueue(t) ==
  /\ tool[t].pc = "gated"
  /\ EnqueueEffect(ToolSubmission(tool[t].kind), None)
  /\ tool' = [tool EXCEPT ![t].pc = "enqueued", ![t].command_id = nextId]
  /\ UNCHANGED <<last_heartbeat, subsec, heartbeats, observed>>
  /\ UNCHANGED <<notifierVars, watcherVars>>

\* after the enqueue: the return without waiting, or wait_for_result up to the
\* end of its first critical section
ToolAwait(t) ==
  /\ tool[t].pc = "enqueued"
  /\ LET id == tool[t].command_id
         kind == tool[t].kind
     IN IF kind = "run_tests" \/ ~(tool[t].wait_timeout_sec > 0)
        THEN /\ ret' = CallReturn(t, kind, ToolResponse(kind, id, None))
             /\ tool' = [tool EXCEPT ![t] = IdleTool]
             /\ UNCHANGED <<waiters, nextEvt, waiter>>
        ELSE IF id \in DOMAIN results
        THEN /\ ret' = CallReturn(t, kind, ToolResponse(kind, id, Some(results[id])))
             /\ tool' = [tool EXCEPT ![t] = IdleTool]
             /\ UNCHANGED <<waiters, nextEvt, waiter>>
        ELSE /\ nextEvt <= MaxEvents
             /\ waiters' = RegisterWaiter(waiters, id, nextEvt)
             /\ nextEvt' = nextEvt + 1
             /\ waiter' = [waiter EXCEPT ![t] =
                             [pc |-> "waiting", command_id |-> id,
                              deadline |-> WaitDeadline(clock, Some(tool[t].wait_timeout_sec)),
                              timed |-> TRUE, evt |-> nextEvt]]
             /\ tool' = [tool EXCEPT ![t].pc = "waiting"]
             /\ UNCHANGED ret
  /\ UNCHANGED <<clock, queue, commands, results, idempotency_index, nextId, evtSet,
                 issued, leases, handed, claimedOnce, completedIds, numCompletes>>
  /\ UNCHANGED <<last_heartbeat, subsec, heartbeats, observed>>
  /\ UNCHANGED <<notifierVars, watcherVars>>
  /\ UNCHANGED resubmitted

\* wait_for_result has returned: the call maps its value to the response
ToolReturn(t) ==
  /\ tool[t].pc = "waiting"
  /\ waiter[t].pc = "woken"
  /\ ret' = CallReturn(t, tool[t].kind,
                       ToolResponse(tool[t].kind, tool[t].command_id,
                                    WaitReturnValue(results, tool[t].command_id)))
  /\ tool' = [tool EXCEPT ![t] = IdleTool]
  /\ waiter' = [waiter EXCEPT ![t] = IdleWaiter]
  /\ UNCHANGED <<clock, queue, commands, results, waiters, idempotency_index, nextId,
                 nextEvt, evtSet, issued, leases, handed, claimedOnce, completedIds,
                 numCompletes>>
  /\ UNCHANGED <<last_heartbeat, subsec, heartbeats, observed>>
  /\ UNCHANGED <<notifierVars, watcherVars>>
  /\ UNCHANGED resubmitted

(* ---------------------------- check status ---------------------------- *)
\* the status reported for what get_result returned
StatusResponse(res) ==
  IF res = None THEN [status |-> "pending", result |-> None, error |-> None]
  ELSE IF res[1].ok THEN [status |-> "completed", result |-> res[1].result, error |-> None]
  ELSE [status |-> "failed", result |-> None, error |-> res[1].error]

\* the check-status tool: a get_result and the mapping of its value
CheckCommandStatus(command_id) ==
  /\ ret' = [op |-> "check_command_status", id |-> command_id,
             val |-> StatusResponse(DictGet(results, command_id))]
  /\ UNCHANGED <<queueVars, notifierVars, watcherVars, handlerVars>>

(* ------------------------- ResourceNotifier ---------------------------- *)
IdleEmit == [pc |-> "idle", uri |-> "", session |-> ""]

\* `list(self._buffered)`: a set is listed in hash order, which is any order
ListOrders(S) ==
  {q \in [1..Cardinality(S) -> S] : \A i, j \in 1..Cardinality(S) : q[i] = q[j] => i = j}

\* `if self._session is session: return`
AttachIsNoop(cur, s) == cur = Some(s)

\* the ordered snapshot handed to _flush_many, after which the buffer is cleared
DrainOrders(buf) == ListOrders(buf)

ClearBuffered_Keep(buf) == buf

ClearBuffered(buf) == {}

AttachSession_Inline(s) ==
  /\ IF AttachIsNoop(session, s)
     THEN /\ ret' = [op |-> "attach_session", session |-> s, noop |-> TRUE]
          /\ UNCHANGED <<session, buffered, delivered>>
     ELSE /\ session' = Some(s)
          /\ ret' = [op |-> "attach_session", session |-> s, noop |-> FALSE]
          /\ \E uris \in DrainOrders(buffered) :
               delivered' = delivered \o [i \in 1..Len(uris) |->
                                            [session |-> s, uri |-> uris[i], via |-> "flush"]]
          /\ buffered' = ClearBuffered(buffered)
  /\ UNCHANGED <<subscribed_uris, emitting, flushTasks, queued, numNotifies>>
  /\ UNCHANGED <<queueVars, watcherVars>>
  /\ UNCHANGED handlerVars

AttachSession_Reset(s) ==
  /\ session' = Some(s)
  /\ subscribed_uris' = {}
  /\ ret' = [op |-> "attach_session", session |-> s, noop |-> AttachIsNoop(session, s)]
  /\ IF buffered # {}
     THEN /\ \E uris \in DrainOrders(buffered) : flushTasks' = Append(flushTasks, uris)
          /\ buffered' = ClearBuffered(buffered)
     ELSE UNCHANGED <<buffered, flushTasks>>
  /\ UNCHANGED <<emitting, delivered, queued, numNotifies>>
  /\ UNCHANGED <<queueVars, watcherVars>>
  /\ UNCHANGED handlerVars

\* attach_session(): runs under the lock without suspending; the flush is a new
\* task that runs later
AttachSession(s) ==
  /\ IF AttachIsNoop(session, s)
     THEN /\ ret' = [op |-> "attach_session", session |-> s, noop |-> TRUE]
          /\ UNCHANGED <<session, buffered, flushTasks>>
     ELSE /\ session' = Some(s)
          /\ ret' = [op |-> "attach_session", session |-> s, noop |-> FALSE]
          /\ IF buffered # {}
             THEN /\ \E uris \in DrainOrders(buffered) :
                       flushTasks' = Append(flushTasks, uris)
                  /\ buffered' = ClearBuffered(buffered)
             ELSE UNCHANGED <<buffered, flushTasks>>
  /\ UNCHANGED <<subscribed_uris, emitting, delivered, queued, numNotifies>>
  /\ UNCHANGED <<queueVars, watcherVars>>
  /\ UNCHANGED handlerVars

Subscribe(uri) ==
  /\ subscribed_uris' = subscribed_uris \cup {uri}
  /\ ret' = [op |-> "subscribe", uri |-> uri]
  /\ UNCHANGED <<session, buffered, emitting, flushTasks, delivered, queued, numNotifies>>
  /\ UNCHANGED <<queueVars, watcherVars>>
  /\ UNCHANGED handlerVars

Unsubscribe(uri) ==
  /\ subscribed_uris' = subscribed_uris \ {uri}
  /\ ret' = [op |-> "unsubscribe", uri |-> uri]
  /\ UNCHANGED <<session, buffered, emitting, flushTasks, delivered, queued, numNotifies>>
  /\ UNCHANGED <<queueVars, watcherVars>>
  /\ UNCHANGED handlerVars

FilteredOut_Strict(subs, uri) == uri \notin subs

FilteredOut_Never(subs, uri) == FALSE

\* `if self._subscribed_uris and uri not in self._subscribed_uris: return`
FilteredOut(subs, uri) == subs # {} /\ uri \notin subs

NotifyOutcome_BufferFirst(subs, sess, uri) ==
  IF sess = None THEN "buffered"
  ELSE IF FilteredOut(subs, uri) THEN "dropped"
  ELSE "emitting"

\* the locked part of notify_updated(): drop, buffer, or capture the session
NotifyOutcome(subs, sess, uri) ==
  IF FilteredOut(subs, uri) THEN "dropped"
  ELSE IF sess = None THEN "buffered"
  ELSE "emitting"

\* notify_updated() up to `await self._emit(uri, session=session)`
NotifyEffect(c, uri) ==
  /\ emitting[c].pc = "idle"
  /\ numNotifies' = numNotifies + 1
  /\ LET outcome == NotifyOutcome(subscribed_uris, session, uri)
     IN /\ ret' = [op |-> "notify_updated", uri |-> uri, outcome |-> outcome]
        /\ buffered' = IF outcome = "buffered" THEN buffered \cup {uri} ELSE buffered
        /\ queued' = IF outcome = "buffered" THEN Append(queued, uri) ELSE queued
        /\ emitting' = IF outcome = "emitting"
                       THEN [emitting EXCEPT ![c] =
                               [pc |-> "emit", uri |-> uri, session |-> session[1]]]
                       ELSE emitting
  /\ UNCHANGED <<session, subscribed_uris, flushTasks, delivered>>

NotifyUpdated(c, uri) ==
  /\ numNotifies < MaxNotifies
  /\ NotifyEffect(c, uri)
  /\ UNCHANGED <<queueVars, watcherVars>>
  /\ UNCHANGED handlerVars

\* `await sess.send_resource_updated(uri)` on the session notify_updated captured
Emit(c) ==
  /\ emitting[c].pc = "emit"
  /\ delivered' = Append(delivered, [session |-> emitting[c].session,
                                     uri |-> emitting[c].uri, via |-> "notify"])
  /\ emitting' = [emitting EXCEPT ![c] = IdleEmit]
  /\ UNCHANGED <<session, subscribed_uris, buffered, flushTasks, queued, numNotifies, ret>>
  /\ UNCHANGED <<queueVars, watcherVars>>
  /\ UNCHANGED handlerVars

DropTask(tasks, i) == [j \in 1..(Len(tasks) - 1) |-> IF j < i THEN tasks[j] ELSE tasks[j + 1]]

FlushStep_Filtered(i) ==
  /\ i \in 1..Len(flushTasks)
  /\ LET uri == Head(flushTasks[i])
     IN IF session = None
        THEN /\ buffered' = buffered \cup {uri}
             /\ UNCHANGED delivered
        ELSE /\ delivered' = IF FilteredOut(subscribed_uris, uri) THEN delivered
                             ELSE Append(delivered, [session |-> session[1], uri |-> uri,
                                                     via |-> "flush"])
             /\ UNCHANGED buffered
  /\ flushTasks' = IF Len(flushTasks[i]) = 1
                   THEN DropTask(flushTasks, i)
                   ELSE [flushTasks EXCEPT ![i] = Tail(flushTasks[i])]
  /\ UNCHANGED <<session, subscribed_uris, emitting, queued, numNotifies, ret>>
  /\ UNCHANGED <<queueVars, watcherVars>>
  /\ UNCHANGED handlerVars

\* one iteration of _flush_many(): `await self._emit(uri)` sends on the session
\* attached at that moment, or buffers the uri again when there is none
FlushStep(i) ==
  /\ i \in 1..Len(flushTasks)
  /\ LET uri == Head(flushTasks[i])
     IN IF session = None
        THEN /\ buffered' = buffered \cup {uri}
             /\ UNCHANGED delivered
        ELSE /\ delivered' = Append(delivered, [session |-> session[1], uri |-> uri,
                                                via |-> "flush"])
             /\ UNCHANGED buffered
  /\ flushTasks' = IF Len(flushTasks[i]) = 1
                   THEN DropTask(flushTasks, i)
                   ELSE [flushTasks EXCEPT ![i] = Tail(flushTasks[i])]
  /\ UNCHANGED <<session, subscribed_uris, emitting, queued, numNotifies, ret>>
  /\ UNCHANGED <<queueVars, watcherVars>>
  /\ UNCHANGED handlerVars

(* ------------------------------ watchers ------------------------------- *)
NoSnapshot == [id |-> BogusId, evt |-> 0]
IdleCtl == [pc |-> "idle", busy |-> {}]

WatcherUri(w) ==
  CASE w = "log" -> LogsUri
    [] w = "status" -> StatusUri
    [] OTHER -> CollectionsUri

\* what a poll observes: nothing (no log file, no heartbeat) or a signature
Signatures == {None, Some(1), Some(2)}
PollingWatchers == {"log", "status"}
\* `queue.enqueue(type="collection.list", payload={})`
SnapshotSubmission == [type |-> "collection.list", payload |-> "{}"]
\* what the plugin may answer to collection.list
SnapshotOutcomes == {[ok |-> TRUE, result |-> Some("r1"), error |-> None],
                     [ok |-> TRUE, result |-> Some("r2"), error |-> None],
                     [ok |-> FALSE, result |-> None, error |-> Some("e1")]}

\* _watch_plugin_log: no file, the first signature (a baseline), a changed one
LogDecision(last_sig, sig) ==
  IF sig = None THEN [last |-> last_sig, notify |-> FALSE]
  ELSE IF last_sig = None THEN [last |-> sig, notify |-> FALSE]
  ELSE IF sig # last_sig THEN [last |-> sig, notify |-> TRUE]
  ELSE [last |-> last_sig, notify |-> FALSE]

StatusDecision_Baseline(last_seen, current) ==
  IF current = None THEN [last |-> last_seen, notify |-> FALSE]
  ELSE IF last_seen = None THEN [last |-> current, notify |-> FALSE]
  ELSE IF current # last_seen THEN [last |-> current, notify |-> TRUE]
  ELSE [last |-> last_seen, notify |-> FALSE]

\* _watch_status: `if current and (last_seen is None or current != last_seen)`
StatusDecision(last_seen, current) ==
  IF current # None /\ (last_seen = None \/ current # last_seen)
  THEN [last |-> current, notify |-> TRUE]
  ELSE [last |-> last_seen, notify |-> FALSE]

\* _read_collections_snapshot: `if res and res.ok and isinstance(res.result, dict)`
SnapshotData(res) ==
  IF res # None /\ res[1].ok /\ res[1].result # None THEN res[1].result ELSE None

\* md5 of the canonical json of the snapshot
SnapshotHash(data) == Some(<< "md5", data[1] >>)

\* _watch_collections: no data, the first hash (a baseline), a changed one
HashDecision(last_hash, data) ==
  IF data = None THEN [last |-> last_hash, notify |-> FALSE]
  ELSE IF last_hash = None THEN [last |-> SnapshotHash(data), notify |-> FALSE]
  ELSE IF SnapshotHash(data) # last_hash THEN [last |-> SnapshotHash(data), notify |-> TRUE]
  ELSE [last |-> last_hash, notify |-> FALSE]

\* start_watchers(): called from the running loop by the controlling task
StartWatchers ==
  /\ ctl.pc = "idle"
  /\ IF watchersUp
     THEN /\ ret' = [op |-> "start_watchers", effect |-> FALSE]
          /\ UNCHANGED <<watchersUp, stop_event, wpc, last, wcmd, numStarts>>
     ELSE /\ numStarts < MaxStarts
          /\ numStarts' = numStarts + 1
          /\ watchersUp' = TRUE
          /\ stop_event' = FALSE
          /\ wpc' = [w \in WatcherNames |-> "ready"]
          /\ last' = [w \in WatcherNames |-> None]
          /\ wcmd' = NoSnapshot
          /\ ret' = [op |-> "start_watchers", effect |-> TRUE]
  /\ UNCHANGED ctl
  /\ UNCHANGED <<queueVars, notifierVars>>
  /\ UNCHANGED handlerVars

StopIsNoop_Never(up) == FALSE

\* `if _WATCHERS is None: return`
StopIsNoop(up) == ~up

\* the watcher tasks that are inside a poll iteration
BusyWatchers == {w \in WatcherNames : wpc[w] \in {"snapshot", "waiting"}
                                       \/ emitting[w].pc = "emit"}

\* stop_watchers() up to `await asyncio.gather(...)`
StopWatchers ==
  /\ ctl.pc = "idle"
  /\ IF StopIsNoop(watchersUp)
     THEN /\ ret' = [op |-> "stop_watchers", effect |-> FALSE, busy |-> {}]
          /\ UNCHANGED <<stop_event, ctl>>
     ELSE /\ stop_event' = TRUE
          /\ ctl' = [pc |-> "gathering", busy |-> BusyWatchers]
          /\ UNCHANGED ret
  /\ UNCHANGED <<watchersUp, wpc, last, wcmd, numStarts>>
  /\ UNCHANGED <<queueVars, notifierVars>>
  /\ UNCHANGED handlerVars

\* `await asyncio.gather(*_WATCHERS.tasks, return_exceptions=True)` is over
GatherDone(pcs) == \A w \in WatcherNames : pcs[w] = "done"

\* stop_watchers() after the gather: `_WATCHERS = None`
StopReturn ==
  /\ ctl.pc = "gathering"
  /\ GatherDone(wpc)
  /\ watchersUp' = FALSE
  /\ ctl' = IdleCtl
  /\ ret' = [op |-> "stop_watchers", effect |-> TRUE, busy |-> ctl.busy]
  /\ UNCHANGED <<stop_event, wpc, last, wcmd, numStarts>>
  /\ UNCHANGED <<queueVars, notifierVars>>
  /\ UNCHANGED handlerVars

LoopExit_Never(stopped) == FALSE

\* `while not state.stop_event.is_set():`
LoopExit(stopped) == stopped

\* A watcher task runs without suspending from the end of its sleep (or from its
\* creation) through the loop test and the poll, up to the next await: the
\* send inside notify_updated, the snapshot wait, or the sleep.

\* the log or the status watcher: the loop test, then one poll
WIterate(w, obs) ==
  /\ wpc[w] = "ready"
  /\ emitting[w].pc = "idle"
  /\ IF LoopExit(stop_event)
     THEN /\ wpc' = [wpc EXCEPT ![w] = "done"]
          /\ UNCHANGED <<last, notifierVars, ret>>
     ELSE LET d == IF w = "log" THEN LogDecision(last[w], obs)
                   ELSE StatusDecision(last[w], obs)
          IN /\ last' = [last EXCEPT ![w] = d.last]
             /\ IF d.notify
                THEN numNotifies < MaxWatchNotifies /\ NotifyEffect(w, WatcherUri(w))
                ELSE UNCHANGED <<notifierVars, ret>>
             /\ UNCHANGED wpc
  /\ UNCHANGED <<watchersUp, stop_event, wcmd, ctl, numStarts>>
  /\ UNCHANGED queueVars
  /\ UNCHANGED handlerVars

PollErrorCaught_Escapes(pcs, w) == [pcs EXCEPT ![w] = "done"]

\* `except Exception: logger.exception(...)`: the task goes on to its sleep
PollErrorCaught(pcs, w) == pcs

\* an iteration whose poll raises before it has assigned anything (stat() on
\* the log file, the store, the snapshot request): the loop test, the except
\* clause, then the sleep
WPollError(w) ==
  /\ wpc[w] = "ready"
  /\ emitting[w].pc = "idle"
  /\ ~LoopExit(stop_event)
  /\ wpc' = PollErrorCaught(wpc, w)
  /\ ret' = [op |-> "watcher_error", watcher |-> w]
  /\ UNCHANGED <<watchersUp, stop_event, last, wcmd, ctl, numStarts>>
  /\ UNCHANGED <<queueVars, notifierVars>>
  /\ UNCHANGED handlerVars

\* the collections watcher: the loop test, then nothing when
\* _is_lightroom_running() finds no fresh heartbeat (`running` is its value), else the enqueue of collection.list up to
\* `await asyncio.to_thread(_wait)`
WIterateCollections(running) ==
  /\ wpc["collections"] = "ready"
  /\ emitting["collections"].pc = "idle"
  /\ IF LoopExit(stop_event)
     THEN /\ wpc' = [wpc EXCEPT !["collections"] = "done"]
          /\ UNCHANGED <<queueVars, ret, wcmd>>
     ELSE IF running
     THEN /\ WatcherIsRunning(last_heartbeat, Now)
          /\ nextEvt <= MaxEvents
          /\ EnqueueEffect(SnapshotSubmission, None)
          /\ wcmd' = [id |-> nextId, evt |-> 0]
          /\ wpc' = [wpc EXCEPT !["collections"] = "snapshot"]
     ELSE /\ ~WatcherIsRunning(last_heartbeat, Now)
          /\ UNCHANGED <<queueVars, ret, wcmd, wpc>>
  /\ UNCHANGED <<watchersUp, stop_event, last, ctl, numStarts>>
  /\ UNCHANGED notifierVars
  /\ UNCHANGED handlerVars

\* the rest of the iteration once wait_for_result has returned `val`
SnapshotDone(val) ==
  LET d == HashDecision(last["collections"], SnapshotData(val))
  IN /\ last' = [last EXCEPT !["collections"] = d.last]
     /\ IF d.notify
        THEN NotifyEffect("collections", CollectionsUri)
        ELSE UNCHANGED <<notifierVars, ret>>
     /\ wpc' = [wpc EXCEPT !["collections"] = "ready"]
     /\ wcmd' = NoSnapshot
     /\ UNCHANGED <<watchersUp, stop_event, ctl, numStarts>>

\* the worker thread enters wait_for_result(command_id, 2.0): the fast path, or
\* the registration of its event
WSnapshotRegister ==
  /\ wpc["collections"] = "snapshot"
  /\ IF wcmd.id \in DOMAIN results
     THEN /\ SnapshotDone(Some(results[wcmd.id]))
          /\ UNCHANGED queueVars
     ELSE /\ waiters' = RegisterWaiter(waiters, wcmd.id, nextEvt)
          /\ nextEvt' = nextEvt + 1
          /\ wcmd' = [wcmd EXCEPT !.evt = nextEvt]
          /\ wpc' = [wpc EXCEPT !["collections"] = "waiting"]
          /\ UNCHANGED <<clock, queue, commands, results, idempotency_index, nextId, evtSet,
                         waiter, issued, leases, handed, claimedOnce, completedIds,
                         numCompletes, resubmitted>>
          /\ UNCHANGED <<watchersUp, stop_event, last, ctl, numStarts>>
          /\ UNCHANGED <<notifierVars, ret>>
  /\ UNCHANGED handlerVars

\* the wait ends, by the event or after its 2 s, and reads the result
WSnapshotReturn ==
  /\ wpc["collections"] = "waiting"
  /\ SnapshotDone(WaitReturnValue(results, wcmd.id))
  /\ UNCHANGED queueVars
  /\ UNCHANGED handlerVars

(* ---------------------------- specification ---------------------------- *)
Init ==
  /\ clock = 0
  /\ queue = << >>
  /\ commands = EmptyDict
  /\ results = EmptyDict
  /\ waiters = EmptyDict
  /\ idempotency_index = EmptyDict
  /\ nextId = 1
  /\ nextEvt = 1
  /\ evtSet = {}
  /\ waiter = [t \in Threads |-> IdleWaiter]
  /\ issued = EmptyDict
  /\ leases = {}
  /\ handed = {}
  /\ claimedOnce = {}
  /\ resubmitted = {}
  /\ completedIds = {}
  /\ numCompletes = 0
  /\ ret = NoCall
  /\ session = None
  /\ subscribed_uris = {}
  /\ buffered = {}
  /\ emitting = [c \in EmitTasks |-> IdleEmit]
  /\ flushTasks = << >>
  /\ delivered = << >>
  /\ queued = << >>
  /\ numNotifies = 0
  /\ watchersUp = FALSE
  /\ stop_event = FALSE
  /\ wpc = [w \in WatcherNames |-> "none"]
  /\ last = [w \in WatcherNames |-> None]
  /\ wcmd = NoSnapshot
  /\ ctl = IdleCtl
  /\ numStarts = 0
  /\ last_heartbeat = None
  /\ subsec = 0
  /\ tool = [t \in Threads |-> IdleTool]
  /\ heartbeats = << >>
  /\ observed = None

\* The four specifications run the same operations from the same initial state
\* and differ in the arguments the callers pass.

\* leases: two workers, every max_items, every clock value claim may have read
Next ==
  \/ Enqueue(PlainSubmission, None)
  \/ \E w \in Workers, m \in MaxItemsArgs, now \in ClockReads : Claim(w, m, now)
  \/ \E id \in IssuedIds : Complete(id, OkOutcome)
  \/ Tick

Spec == Init /\ [][Next]_vars

\* idempotency: every key and submission
NextIdem ==
  \/ \E sub \in Submissions, key \in Keys : Enqueue(sub, key)
  \/ Claim("w1", 1, clock)
  \/ \E id \in IssuedIds : Complete(id, OkOutcome)
  \/ Tick

SpecIdem == Init /\ [][NextIdem]_vars

\* results: every outcome, ids that were never enqueued, repeated completion
NextResult ==
  \/ Enqueue(PlainSubmission, None)
  \/ \E w \in Workers : Claim(w, 1, clock)
  \/ \E id \in KnownIds, o \in Outcomes : Complete(id, o)
  \/ \E id \in KnownIds : GetResult(id)
  \/ Tick

SpecResult == Init /\ [][NextResult]_vars

\* blocking waits: two waiting threads, every timeout, a short horizon
NextWait ==
  \/ Enqueue(PlainSubmission, None)
  \/ Claim("w1", 1, clock)
  \/ \E id \in IssuedIds : Complete(id, OkOutcome)
  \/ \E id \in IssuedIds : GetResult(id)
  \/ \E t \in Threads, id \in IssuedIds, to \in WaitTimeouts :
       WaitRegister(t, id, to, clock)
  \/ \E t \in Threads : WaitWake(t)
  \/ \E t \in Threads : WaitReturn(t)
  \/ (clock < WaitHorizon /\ Tick)

SpecWait == Init /\ [][NextWait]_vars

\* lost work: keyed submissions whose index entries are pruned, two workers, a
\* caller that waits with a timeout, leases that expire more than once
NextLoss ==
  \/ Enqueue(PlainSubmission, Some("k"))
  \/ \E w \in Workers : Claim(w, 1, clock)
  \/ \E id \in IssuedIds : Complete(id, OkOutcome)
  \/ \E id \in IssuedIds : WaitRegister("t1", id, Some(TickStep), clock)
  \/ WaitWake("t1")
  \/ WaitReturn("t1")
  \/ Tick

SpecLoss == Init /\ [][NextLoss]_vars

\* the notifier: two sessions, two callers, two resource identifiers
NotifyUris == {LogsUri, StatusUri}

NextNotify ==
  \/ \E s \in Sessions : AttachSession(s)
  \/ \E uri \in NotifyUris : Subscribe(uri)
  \/ \E uri \in NotifyUris : Unsubscribe(uri)
  \/ \E c \in NotifyCallers, uri \in NotifyUris : NotifyUpdated(c, uri)
  \/ \E c \in NotifyCallers : Emit(c)
  \/ \E i \in 1..Len(flushTasks) : FlushStep(i)

SpecNotify == Init /\ [][NextNotify]_vars

\* the watchers: the controlling task starts and stops them, a session
\* attaches, the plugin sends heartbeats and answers no snapshot command
NextWatch ==
  \/ StartWatchers
  \/ StopWatchers
  \/ StopReturn
  \/ \E w \in PollingWatchers, obs \in Signatures : WIterate(w, obs)
  \/ \E running \in BOOLEAN : WIterateCollections(running)
  \/ \E w \in WatcherNames : WPollError(w)
  \/ WSnapshotRegister
  \/ WSnapshotReturn
  \/ \E w \in WatcherNames : Emit(w)
  \/ AttachSession("s1")
  \/ SetHeartbeat("0.1.0", None, None, Now)

\* the event loop runs every task that is ready, and the snapshot wait is
\* bounded by its timeout
WatchFairness ==
  /\ \A w \in WatcherNames : WF_vars(Emit(w))
  /\ \A w \in PollingWatchers : WF_vars(\E obs \in Signatures : WIterate(w, obs))
  /\ WF_vars(\E running \in BOOLEAN : WIterateCollections(running))
  /\ WF_vars(WSnapshotRegister)
  /\ WF_vars(WSnapshotReturn)
  /\ WF_vars(StopReturn)

SpecWatch == Init /\ [][NextWatch]_vars /\ WatchFairness

\* the heartbeat store: every sent_at_iso, every catalog path, readings less
\* than a second apart
NextStore ==
  \/ \E pv \in PluginVersions, cp \in CatalogPaths, iso \in SentAtInputs,
          now \in HeartbeatReads : SetHeartbeat(pv, cp, iso, now)
  \/ GetLastHeartbeat
  \/ Tick
  \/ SubTick

SpecStore == Init /\ [][NextStore]_vars

\* the liveness gate: one caller of every gated call, the collections watcher,
\* heartbeats that age by whole ticks and by parts of a second
NextGate ==
  \/ SetHeartbeat("0.1.0", None, None, Now)
  \/ \E kind \in ToolKinds, arg \in WaitArgs : ToolGate("t1", kind, arg)
  \/ ToolEnqueue("t1")
  \/ ToolAwait("t1")
  \/ WaitWake("t1")
  \/ ToolReturn("t1")
  \/ StartWatchers
  \/ \E running \in BOOLEAN : WIterateCollections(running)
  \/ WSnapshotRegister
  \/ WSnapshotReturn
  \/ Tick
  \/ SubTick

SpecGate == Init /\ [][NextGate]_vars

\* status checks: every outcome, ids that were never enqueued
NextStatus ==
  \/ Enqueue(PlainSubmission, None)
  \/ Claim("w1", 1, clock)
  \/ \E id \in KnownIds, o \in Outcomes : Complete(id, o)
  \/ \E id \in KnownIds : CheckCommandStatus(id)
  \/ Tick

SpecStatus == Init /\ [][NextStatus]_vars

\* tool calls: one caller of the collection-set tool with every
\* wait_timeout_sec, a plugin that sends heartbeats, claims and answers, a
\* short horizon
NextTool ==
  \/ SetHeartbeat("0.1.0", None, None, Now)
  \/ \E arg \in WaitArgs : ToolGate("t1", "collection_set", arg)
  \/ ToolEnqueue("t1")
  \/ ToolAwait("t1")
  \/ WaitWake("t1")
  \/ ToolReturn("t1")
  \/ Claim("w1", 1, clock)
  \/ \E id \in IssuedIds : Complete(id, OkOutcome)
  \/ \E id \in IssuedIds : GetResult(id)
  \/ (clock < WaitHorizon /\ Tick)

SpecTool == Init /\ [][NextTool]_vars

\* results posted for ids that were never enqueued, next to keyed commands
\* and a caller that waits for such an id
NextUnknown ==
  \/ \E key \in {None, Some("k")} : Enqueue(PlainSubmission, key)
  \/ Claim("w1", 1, clock)
  \/ \E o \in Outcomes : Complete(BogusId, o)
  \/ GetResult(BogusId)
  \/ WaitRegister("t1", BogusId, Some(TickStep), clock)
  \/ WaitWake("t1")
  \/ WaitReturn("t1")
  \/ (clock < WaitHorizon /\ Tick)

SpecUnknown == Init /\ [][NextUnknown]_vars

\* the watchers' polls: every observation of the log and of the heartbeat, and
\* a plugin that answers the snapshot commands of the collections watcher
NextPoll ==
  \/ StartWatchers
  \/ SetHeartbeat("0.1.0", None, None, Now)
  \/ \E w \in PollingWatchers, obs \in Signatures : WIterate(w, obs)
  \/ \E running \in BOOLEAN : WIterateCollections(running)
  \/ WSnapshotRegister
  \/ WSnapshotReturn
  \/ \E o \in SnapshotOutcomes : (wcmd.id # BogusId /\ Complete(wcmd.id, o))

SpecPoll == Init /\ [][NextPoll]_vars

\* the replies of the collection-set tool: one caller that waits, a plugin that
\* posts every kind of result
NextReply ==
  \/ SetHeartbeat("0.1.0", None, None, Now)
  \/ ToolGate("t1", "collection_set", Some(TickStep))
  \/ ToolEnqueue("t1")
  \/ ToolAwait("t1")
  \/ WaitWake("t1")
  \/ ToolReturn("t1")
  \/ \E id \in IssuedIds, o \in ToolOutcomes : Complete(id, o)
  \/ (clock < WaitHorizon /\ Tick)

SpecReply == Init /\ [][NextReply]_vars

(* ============================== properties ============================= *)

\* C1: at any time at most one unexpired lease exists on a given command, so a
\* claim never hands a command to a second caller while a lease on it is valid.
C1_SingleLease == \A l1 \in leases, l2 \in leases : l1.id = l2.id => l1 = l2

C1_Witness ==
  /\ ret.op = "claim" /\ ret.max_items >= 1 /\ ret.val = << >>
  /\ \E l \in leases : l.worker # ret.worker /\ DOMAIN commands = {l.id}

\* the commands created with `key` at most IDEMPOTENCY_TTL_SECONDS ago
SameKeyWithinTtl(key) ==
  {id \in DOMAIN issued : issued[id].key = key
                           /\ clock - issued[id].at <= IDEMPOTENCY_TTL_SECONDS}

\* C2 as stated: an enqueue carrying any idempotency_key (the empty string
\* included) that a command was created with within the TTL returns that
\* command's id and creates no command.
C2_Original ==
  [][\A sub \in Submissions, key \in Keys :
       (Enqueue(sub, key) /\ key # None) =>
         \A id \in SameKeyWithinTtl(key) : ret'.val = id /\ nextId' = nextId]_vars

\* C2: an enqueue carrying a non-empty idempotency_key that a command was created
\* with within the TTL returns that command's id and creates no command, so one
\* command exists per non-empty key and TTL window.
C2_SameId ==
  [][\A sub \in Submissions, key \in Keys :
       (Enqueue(sub, key) /\ key # None /\ key # Some("")) =>
         \A id \in SameKeyWithinTtl(key) : ret'.val = id /\ nextId' = nextId]_vars

C2_Witness ==
  /\ ret.op = "enqueue"
  /\ issued[ret.val].key = Some("k")
  /\ issued[ret.val].at < clock

\* C3: a deduplicated enqueue changes neither the stored command (its type and
\* payload stay those of the first submission), nor the FIFO, nor any other
\* command, nor the results.
C3_DedupKeepsCommand ==
  [][\A sub \in Submissions, key \in Keys :
       (Enqueue(sub, key) /\ key # None /\ key # Some("") /\ SameKeyWithinTtl(key) # {}) =>
         /\ commands' = commands
         /\ queue' = queue
         /\ results' = results
         /\ \A id \in SameKeyWithinTtl(key) \cap DOMAIN commands' :
              /\ commands'[id].type = issued[id].type
              /\ commands'[id].payload = issued[id].payload]_vars

C3_Witness ==
  /\ ret.op = "enqueue"
  /\ ret.val \in DOMAIN commands
  /\ commands[ret.val].payload # ret.sub.payload
  /\ Cardinality(DOMAIN commands) = 2

\* a waiter that is blocked on a completed id has had its event set
NoLostWakeup ==
  \A t \in Threads :
    (waiter[t].pc = "waiting" /\ waiter[t].command_id \in completedIds)
      => waiter[t].evt \in evtSet

\* C4: once complete(id) has returned, every waiter registered for id has its
\* event set (it need not wait out its timeout), every wait_for_result(id) that
\* returns afterwards returns the stored result, and so does every get_result(id).
C4_CompleteVisible ==
  [][/\ NoLostWakeup'
     /\ \A t \in Threads :
          (WaitReturn(t) /\ waiter[t].command_id \in completedIds)
            => ret'.val = Some(results[waiter[t].command_id])
     /\ \A id \in IssuedIds :
          (GetResult(id) /\ id \in completedIds) => ret'.val = Some(results[id])]_vars

C4_Witness ==
  /\ ret.op = "wait_for_result"
  /\ ret.woke = "early"
  /\ ret.val # None

\* C5: a get_result(id) that follows complete(id, ok, result, error) returns a
\* result with exactly that ok, result and error, and id is not active.
C5_CompleteThenGet ==
  [][\A id \in KnownIds :
       (GetResult(id) /\ ret.op = "complete" /\ ret.id = id) =>
         /\ ret'.val # None
         /\ ret'.val[1].ok = ret.outcome.ok
         /\ ret'.val[1].result = ret.outcome.result
         /\ ret'.val[1].error = ret.outcome.error
         /\ id \notin DOMAIN commands]_vars

C5_Witness ==
  /\ ret.op = "get_result"
  /\ ret.id \in DOMAIN issued
  /\ ret.val # None
  /\ ret.val[1].ok = FALSE
  /\ ret.val[1].error = Some("e1")

\* C6: a wait_for_result(id, t) that returns when no complete(id) has occurred
\* returns absent, and no step of wait_for_result changes the commands, the
\* FIFO, the results or the idempotency index.
C6_TimeoutReturnsAbsent ==
  [][/\ \A t \in Threads :
          WaitReturn(t) =>
            /\ waiter[t].command_id \notin completedIds => ret'.val = None
            /\ UNCHANGED <<queue, commands, results, idempotency_index>>
     /\ \A t \in Threads :
          WaitWake(t) => UNCHANGED <<queue, commands, results, idempotency_index>>
     /\ \A t \in Threads, id \in IssuedIds, to \in WaitTimeouts :
          WaitRegister(t, id, to, clock)
            => UNCHANGED <<queue, commands, results, idempotency_index>>]_vars

C6_Witness ==
  /\ ret.op = "wait_for_result"
  /\ ret.woke = "late"
  /\ ret.val = None
  /\ ret.id \in DOMAIN commands
  /\ commands[ret.id].claimed_by # None

\* the lease of command id has run out for a claim that read the clock at `now`
LeaseLapsed(id, now) ==
  /\ commands[id].visibility_deadline # None
  /\ commands[id].visibility_deadline[1] <= now

\* command id is handed to worker w with a lease starting at `now`
HandedTo(id, w, now) ==
  /\ InSeq(id, ret'.val)
  /\ commands'[id].claimed_by = Some(w)
  /\ commands'[id].visibility_deadline = Some(now + VISIBILITY_TIMEOUT_SECONDS)

\* C7 as stated: a claim with max_items >= 1 made after the deadline of a
\* claimed, uncompleted command has passed returns that command, claimed by the
\* caller with a fresh deadline.
C7_Original ==
  [][\A w \in Workers, m \in MaxItemsArgs, now \in ClockReads :
       (Claim(w, m, now) /\ m >= 1) =>
         \A id \in DOMAIN commands : LeaseLapsed(id, now) => HandedTo(id, w, now)]_vars

\* the commands served before an expired command: those already in the FIFO and
\* the expired commands enqueued before it
CommandsAhead(id, now) ==
  Len(queue) + Cardinality({j \in DOMAIN commands : j < id /\ LeaseLapsed(j, now)})

\* C7: a claim made after the deadline of a claimed, uncompleted command has
\* passed returns that command, claimed by the caller with a fresh deadline,
\* when max_items exceeds the number of commands ahead of it; otherwise the
\* command becomes available again and stays in the FIFO.
C7_Reclaim ==
  [][\A w \in Workers, m \in MaxItemsArgs, now \in ClockReads :
       (Claim(w, m, now) /\ m >= 1) =>
         \A id \in DOMAIN commands :
           LeaseLapsed(id, now) =>
             IF CommandsAhead(id, now) < m
             THEN HandedTo(id, w, now)
             ELSE /\ commands'[id].visibility_deadline = None
                  /\ commands'[id].claimed_by = None
                  /\ InSeq(id, queue')]_vars

C7_Witness ==
  /\ ret.op = "claim"
  /\ \E id \in handed \cap DOMAIN commands :
       InSeq(id, ret.val) /\ commands[id].claimed_by = Some(ret.worker)

\* C8: a completed command is never active, never in the FIFO and never in the
\* return value of a claim.
C8_CompletedTerminal ==
  \A id \in completedIds :
    /\ id \notin DOMAIN commands
    /\ ~InSeq(id, queue)
    /\ ret.op = "claim" => ~InSeq(id, ret.val)

C8_Witness ==
  /\ ret.op = "claim" /\ ret.max_items >= 1
  /\ \E id \in completedIds : \E l \in leases : l.id = id

\* C9 as stated: no step changes or removes a stored CommandResult.
C9_Original ==
  [][\A id \in DOMAIN results :
       id \in DOMAIN results' /\ results'[id] = results[id]]_vars

\* C9: only a complete call for the same id changes a stored CommandResult; no
\* other operation changes or removes it.
C9_OnlyCompleteRewrites ==
  [][\A id \in DOMAIN results :
       \/ id \in DOMAIN results' /\ results'[id] = results[id]
       \/ \E o \in Outcomes : Complete(id, o)]_vars

C9_Witness ==
  /\ ret.op = "get_result"
  /\ ret.val # None
  /\ ret.val[1].completed_at < clock
  /\ results[ret.id] = ret.val[1]

\* C10: a complete(id) for a command that was handed to a second worker after
\* its lease expired stores its own outcome, whether or not a result was
\* already stored, and leaves the command neither active nor in the FIFO.
C10_LateCompleteWins ==
  [][\A id \in KnownIds, o \in Outcomes :
       (Complete(id, o) /\ id \in handed) =>
         /\ results'[id] = [ok |-> o.ok, result |-> o.result, error |-> o.error,
                            completed_at |-> clock]
         /\ id \notin DOMAIN commands'
         /\ ~InSeq(id, queue')]_vars

C10_Witness ==
  /\ ret.op = "complete"
  /\ ret.id \in handed
  /\ ret.prev # None
  /\ ret.prev[1].ok # ret.outcome.ok
  /\ results[ret.id].ok = ret.outcome.ok

\* the three states of a command
IsAvailable(id) ==
  /\ id \in DOMAIN commands
  /\ commands[id].visibility_deadline = None

IsCompleted(id) == id \notin DOMAIN commands /\ id \in DOMAIN results

\* claimed with a lease that is still running
IsClaimedLive(id) ==
  /\ id \in DOMAIN commands
  /\ commands[id].visibility_deadline # None
  /\ commands[id].visibility_deadline[1] > clock

\* claimed, whether the lease is still running or has run out and no claim call
\* has swept it yet
IsClaimed(id) ==
  /\ id \in DOMAIN commands
  /\ commands[id].visibility_deadline # None

ExactlyOne(a, b, c) == (a /\ ~b /\ ~c) \/ (~a /\ b /\ ~c) \/ (~a /\ ~b /\ c)

\* C11 as stated: every command is available (active, no deadline), claimed
\* (active, deadline set and in the future) or completed (not active, a key of
\* the results), and in exactly one of the three.
C11_Original ==
  \A id \in IssuedIds : ExactlyOne(IsAvailable(id), IsClaimedLive(id), IsCompleted(id))

\* C11: every command is in exactly one of available (active, no deadline, no
\* claimant, in the FIFO), claimed (active, deadline and claimant set; the
\* deadline may have passed until the next claim call sweeps it) or completed
\* (not active, not in the FIFO, a key of the results).
C11_ThreeStates ==
  \A id \in IssuedIds :
    /\ ExactlyOne(IsAvailable(id), IsClaimed(id), IsCompleted(id))
    /\ IsAvailable(id) => (commands[id].claimed_by = None /\ InSeq(id, queue))
    /\ IsClaimed(id) => commands[id].claimed_by # None
    /\ IsCompleted(id) => ~InSeq(id, queue)

C11_Witness ==
  /\ \E id \in IssuedIds : IsClaimed(id) /\ ~IsClaimedLive(id)
  /\ \E id \in IssuedIds : IsCompleted(id)

PositionIn(x, s) == CHOOSE i \in 1..Len(s) : s[i] = x

\* C12: claim(worker, max_items) returns at most max_items commands, no command
\* twice, each of them available when the claim ran (its lease, if any, had run
\* out) and now claimed by the caller with deadline now + 30 s; of two commands
\* that were never claimed, the later-enqueued one is returned only after the
\* earlier-enqueued one in the same return value.
C12_ClaimFifo ==
  [][\A w \in Workers, m \in MaxItemsArgs, now \in ClockReads :
       Claim(w, m, now) =>
         /\ Len(ret'.val) <= m
         /\ \A i, j \in 1..Len(ret'.val) : ret'.val[i] = ret'.val[j] => i = j
         /\ \A i \in 1..Len(ret'.val) :
              /\ ret'.val[i] \in DOMAIN commands
              /\ IsAvailable(ret'.val[i]) \/ LeaseLapsed(ret'.val[i], now)
              /\ commands'[ret'.val[i]].claimed_by = Some(w)
              /\ commands'[ret'.val[i]].visibility_deadline
                   = Some(now + VISIBILITY_TIMEOUT_SECONDS)
         /\ \A a, b \in DOMAIN commands \ claimedOnce :
              (a < b /\ InSeq(b, ret'.val)) =>
                /\ InSeq(a, ret'.val)
                /\ PositionIn(a, ret'.val) < PositionIn(b, ret'.val)]_vars

C12_Witness ==
  /\ ret.op = "claim" /\ ret.max_items = 1 /\ Len(ret.val) = 1
  /\ \E b \in DOMAIN commands \ claimedOnce : b > ret.val[1]

\* C13: a command leaves the active set only by a complete call for its id (not
\* by claim, lease expiry, a wait_for_result timeout or idempotency pruning); an
\* available command is always in the FIFO, and a claim made after a lease ran
\* out either hands the command to the caller or returns it to the FIFO as
\* available, however often the lease has run out before.
C13_NoLostWork ==
  [][/\ \A id \in DOMAIN commands :
          id \in DOMAIN commands' \/ Complete(id, OkOutcome)
     /\ \A id \in DOMAIN commands' : IsAvailable(id)' => InSeq(id, queue')
     /\ \A w \in Workers :
          Claim(w, 1, clock) =>
            \A id \in DOMAIN commands :
              LeaseLapsed(id, clock) =>
                \/ HandedTo(id, w, clock)
                \/ IsAvailable(id)' /\ InSeq(id, queue')]_vars

C13_Witness ==
  /\ ret.op = "wait_for_result" /\ ret.woke = "late" /\ ret.val = None
  /\ ret.id \in DOMAIN commands
  /\ ret.id \in handed
  /\ commands[ret.id].visibility_deadline = Some(MaxTime + VISIBILITY_TIMEOUT_SECONDS)
  /\ issued[ret.id].key = Some("k")
  /\ "k" \in DOMAIN idempotency_index
  /\ idempotency_index["k"][1] # ret.id

\* C14: complete(A) sets only the events registered for A: a thread blocked in
\* wait_for_result(B), B # A, keeps its state, its event stays unset and B's
\* waiter list is untouched; a blocked thread resumes only once complete was
\* called for its own id or its own timeout has run out, and it returns the
\* result stored for its own id, or absent.
C14_WaitersIndependent ==
  [][/\ \A id \in IssuedIds :
          Complete(id, OkOutcome) =>
            \A t \in Threads :
              (waiter[t].pc = "waiting" /\ waiter[t].command_id # id) =>
                /\ waiter'[t] = waiter[t]
                /\ (waiter[t].evt \in evtSet') = (waiter[t].evt \in evtSet)
                /\ DictGet(waiters', waiter[t].command_id)
                     = DictGet(waiters, waiter[t].command_id)
     /\ \A t \in Threads :
          WaitWake(t) =>
            \/ waiter[t].command_id \in completedIds
            \/ waiter[t].timed /\ clock >= waiter[t].deadline
     /\ \A t \in Threads :
          WaitReturn(t) =>
            /\ ret'.id = waiter[t].command_id
            /\ ret'.val = DictGet(results, waiter[t].command_id)]_vars

C14_Witness ==
  /\ ret.op = "complete"
  /\ \E t \in Threads :
       /\ waiter[t].pc = "waiting"
       /\ waiter[t].command_id = ret.id
       /\ waiter[t].evt \in evtSet
  /\ \E t \in Threads :
       /\ waiter[t].pc = "waiting"
       /\ waiter[t].command_id # ret.id
       /\ waiter[t].evt \notin evtSet

\* C15: with a session attached, notify_updated(x) sends x, once, on that
\* session when the subscription set is empty or contains x, and sends nothing
\* and buffers nothing when the subscription set is non-empty and lacks x.
C15_SubscriptionFilter ==
  [][/\ \A c \in NotifyCallers, uri \in NotifyUris :
          (NotifyUpdated(c, uri) /\ session # None) =>
            /\ buffered' = buffered
            /\ delivered' = delivered
            /\ IF subscribed_uris = {} \/ uri \in subscribed_uris
               THEN emitting' = [emitting EXCEPT ![c] =
                                   [pc |-> "emit", uri |-> uri, session |-> session[1]]]
               ELSE emitting' = emitting
     /\ \A c \in NotifyCallers :
          Emit(c) =>
            /\ delivered' = Append(delivered, [session |-> emitting[c].session,
                                               uri |-> emitting[c].uri, via |-> "notify"])
            /\ emitting'[c].pc = "idle"]_vars

C15_Witness ==
  /\ subscribed_uris = {StatusUri}
  /\ numNotifies = 2
  /\ queued = << >>
  /\ \A c \in NotifyCallers : emitting[c].pc = "idle"
  /\ Len(delivered) = 1
  /\ delivered[1].uri = StatusUri

\* the uris sent by the flush task, in order
FlushDelivered == SelectSeq(delivered, LAMBDA d : d.via = "flush")

\* the buffered uris in the order in which they were first queued
RECURSIVE FirstOccurrences(_)
FirstOccurrences(q) ==
  IF q = << >> THEN << >>
  ELSE LET r == FirstOccurrences(SubSeq(q, 1, Len(q) - 1))
       IN IF InSeq(q[Len(q)], r) THEN r ELSE Append(r, q[Len(q)])

\* C16 as stated: the notifications buffered while no session was attached are
\* sent on attach in the order in which they were queued.
C16_Original ==
  \A i \in 1..Len(FlushDelivered) :
    /\ i <= Len(FirstOccurrences(queued))
    /\ FlushDelivered[i].uri = FirstOccurrences(queued)[i]

CountIn(q, x) == Cardinality({i \in 1..Len(q) : q[i] = x})

\* the number of times uri is still to be sent by a flush task
PendingFlush(uri) ==
  Cardinality({<<i, j>> \in (1..Len(flushTasks)) \X (1..Cardinality(Uris)) :
                 j <= Len(flushTasks[i]) /\ flushTasks[i][j] = uri})

\* C17: the buffer is non-empty only while no session is attached, it is empty
\* after attach_session, at most one flush task is ever created, and a uri is
\* sent by the flush at most as often as notify_updated buffered it.
C17_BufferDrained ==
  /\ buffered # {} => session = None
  /\ ret.op = "attach_session" => buffered = {}
  /\ Len(flushTasks) <= 1
  /\ \A uri \in Uris :
       CountIn([i \in 1..Len(FlushDelivered) |-> FlushDelivered[i].uri], uri)
         + PendingFlush(uri) + (IF uri \in buffered THEN 1 ELSE 0)
         <= CountIn(queued, uri)

C17_Witness ==
  /\ ret.op = "attach_session"
  /\ Len(FlushDelivered) = 2
  /\ flushTasks = << >>
  /\ session # None
  /\ session[1] # FlushDelivered[1].session

\* C18: attach_session with the handle that is already attached changes neither
\* the session, the subscription set, the buffer nor the flush tasks, and sends
\* nothing.
C18_AttachIdempotent ==
  [][\A s \in Sessions :
       (AttachSession(s) /\ session = Some(s)) => UNCHANGED notifierVars]_vars

C18_Witness ==
  /\ ret.op = "attach_session" /\ ret.noop
  /\ subscribed_uris # {}
  /\ Len(FlushDelivered) = 1

\* C19: stop_watchers called while no watchers are up (never started, or
\* already stopped) changes nothing: not the watcher tasks, not the stop signal,
\* not the notifier, not the queue; so start, stop, stop ends in the state of
\* start, stop.
C19_StopIdempotent ==
  [][(StopWatchers /\ ~watchersUp) =>
       /\ UNCHANGED <<watcherVars, notifierVars, queueVars>>
       /\ ret'.effect = FALSE]_vars

C19_Witness ==
  /\ ret.op = "stop_watchers" /\ ret.effect = FALSE
  /\ numStarts = 1
  /\ \A w \in WatcherNames : wpc[w] = "done"

\* C20: a watcher that finds the stop signal raised at its loop test ends
\* without polling, notifying or enqueueing again; stop_watchers returns only
\* when every watcher task has ended; once the signal is raised every watcher
\* eventually ends, and the stop_watchers call that raised it eventually returns
\* with the watchers down.
C20_WatchersStop ==
  /\ [][/\ \A w \in PollingWatchers, obs \in Signatures :
             (WIterate(w, obs) /\ stop_event) =>
               /\ wpc'[w] = "done"
               /\ UNCHANGED <<last, notifierVars, queueVars>>
        /\ \A running \in BOOLEAN :
             (WIterateCollections(running) /\ stop_event) =>
               /\ wpc'["collections"] = "done"
               /\ UNCHANGED <<last, notifierVars, queueVars>>
        /\ StopReturn => \A w \in WatcherNames : wpc[w] = "done"]_vars
  /\ (stop_event /\ watchersUp) ~> (\A w \in WatcherNames : wpc[w] = "done")
  /\ (ctl.pc = "gathering") ~> (ctl.pc = "idle" /\ ~watchersUp)

C20_Witness ==
  /\ ret.op = "stop_watchers" /\ ret.effect
  /\ "collections" \in ret.busy
  /\ Cardinality(ret.busy) = 2
  /\ ~watchersUp
  /\ \A w \in WatcherNames : wpc[w] = "done"

\* the heartbeat of the latest set_heartbeat call, absent before the first
LatestHeartbeat ==
  IF heartbeats = << >> THEN None ELSE Some(heartbeats[Len(heartbeats)])

\* C21: the store holds exactly the heartbeat of the latest set_heartbeat call
\* (nothing before the first), whatever was stored before, and
\* get_last_heartbeat returns it.
C21_LatestHeartbeat ==
  /\ last_heartbeat = LatestHeartbeat
  /\ ret.op = "get_last_heartbeat" => ret.val = LatestHeartbeat

C21_Witness ==
  /\ ret.op = "get_last_heartbeat"
  /\ Len(heartbeats) = 2
  /\ heartbeats[1].catalog_path # heartbeats[2].catalog_path
  /\ heartbeats[1].received_at < heartbeats[2].received_at
  /\ ret.val = Some(heartbeats[2])

\* a reported timestamp that is not ISO-8601
MalformedSentAt == {Some(<< "invalid-date", "" >>)}

\* C22: set_heartbeat with a malformed sent_at_iso replaces the retained
\* heartbeat by one with the call's versions and catalog path, received_at the
\* clock reading the call took, and sent_at absent.
C22_MalformedTolerated ==
  [][\A pv \in PluginVersions, cp \in CatalogPaths, iso \in MalformedSentAt,
        now \in HeartbeatReads :
       SetHeartbeat(pv, cp, iso, now) =>
         /\ last_heartbeat' # None
         /\ last_heartbeat'[1].plugin_version = pv
         /\ last_heartbeat'[1].catalog_path = cp
         /\ last_heartbeat'[1].received_at = now
         /\ last_heartbeat'[1].sent_at = None
         /\ ret'.val = last_heartbeat'[1]]_vars

C22_Witness ==
  /\ ret.op = "set_heartbeat"
  /\ ret.sent_at_iso \in MalformedSentAt
  /\ Len(heartbeats) = 2
  /\ heartbeats[1].sent_at # None
  /\ last_heartbeat = Some(heartbeats[2])
  /\ heartbeats[2].sent_at = None

\* the store holds no heartbeat, or one received more than 30 s ago
HeartbeatMissingOrOld ==
  \/ last_heartbeat = None
  \/ Now - last_heartbeat[1].received_at > Seconds(30)

\* C23 as stated: while the store holds no heartbeat or one more than 30 s old,
\* every gated call (the collection tool, the run-tests tool, the collections
\* resource read) returns its dependency error, with command_id null where the
\* response has one, and the collections watcher skips its poll; none of them
\* enqueues a command or changes the queue.
C23_Original ==
  [][HeartbeatMissingOrOld =>
       /\ \A kind \in ToolKinds, arg \in WaitArgs :
            ToolGate("t1", kind, arg) =>
              /\ tool'["t1"].pc = "idle"
              /\ ret' = CallReturn("t1", kind, DependencyError(kind))
              /\ kind # "resource" => ret'.val.command_id = None
              /\ UNCHANGED queueVars
       /\ \A running \in BOOLEAN :
            (WIterateCollections(running) /\ ~stop_event) =>
              /\ wpc'["collections"] = "ready"
              /\ UNCHANGED queueVars]_vars

\* C24: check-status reports "pending" with null result and error for an id
\* without a result (an id never enqueued included), "completed" with the
\* result for a result with ok = true, "failed" with the error string as
\* complete received it and null result for ok = false; it changes nothing.
C24_StatusMapping ==
  [][\A id \in KnownIds :
       CheckCommandStatus(id) =>
         /\ id \notin completedIds =>
              ret'.val = [status |-> "pending", result |-> None, error |-> None]
         /\ (ret.op = "complete" /\ ret.id = id) =>
              IF ret.outcome.ok
              THEN ret'.val = [status |-> "completed", result |-> ret.outcome.result,
                               error |-> None]
              ELSE ret'.val = [status |-> "failed", result |-> None,
                               error |-> ret.outcome.error]
         /\ id \in completedIds =>
              /\ ret'.val.status = (IF results[id].ok THEN "completed" ELSE "failed")
              /\ ret'.val.result = (IF results[id].ok THEN results[id].result ELSE None)
              /\ ret'.val.error = (IF results[id].ok THEN None ELSE results[id].error)
         /\ UNCHANGED <<queueVars, notifierVars, watcherVars, handlerVars>>]_vars

C24_Witness ==
  /\ ret.op = "check_command_status"
  /\ ret.id \in DOMAIN issued
  /\ ret.val.status = "failed"
  /\ ret.val.error = Some("e1")
  /\ ret.val.result = None

\* the response "pending" for command id
IsPending(val, id) ==
  /\ val.status = "pending"
  /\ val.command_id = Some(id)
  /\ val.error = None
  /\ val.result = None

\* C25: a tool call whose wait ends with no complete for its command returns
\* "pending" with the command id and null error; a call with
\* wait_timeout_sec = 0 returns the same without registering a wait; neither
\* return touches the command, the FIFO or the results, the command is still
\* active after a timed-out wait, and once it is completed get_result returns
\* its outcome.
C25_TimeoutIsPending ==
  [][/\ (ToolReturn("t1") /\ tool["t1"].command_id \notin completedIds) =>
          /\ ret'.op = "call"
          /\ IsPending(ret'.val, tool["t1"].command_id)
          /\ tool["t1"].command_id \in DOMAIN commands'
          /\ UNCHANGED <<queue, commands, results>>
     /\ (ToolAwait("t1") /\ tool["t1"].wait_timeout_sec = 0) =>
          /\ ret'.op = "call"
          /\ IsPending(ret'.val, tool["t1"].command_id)
          /\ tool'["t1"].pc = "idle"
          /\ UNCHANGED <<queue, commands, results, waiters, waiter>>
     /\ \A id \in IssuedIds :
          (GetResult(id) /\ id \in completedIds) => ret'.val = Some(results[id])]_vars

C25_Witness ==
  /\ ret.op = "call"
  /\ ret.val.status = "pending"
  /\ ret.val.command_id # None
  /\ ret.val.command_id[1] \in DOMAIN waiters
  /\ ret.val.command_id[1] \in DOMAIN commands
  /\ commands[ret.val.command_id[1]].claimed_by # None
  /\ clock >= TickStep

\* the completed commands created with `key` at most IDEMPOTENCY_TTL_SECONDS ago
CompletedWithinTtl(key) == SameKeyWithinTtl(key) \cap completedIds

\* C26: an enqueue whose non-empty key belongs to a command created within the
\* TTL and already completed returns that command's id and creates nothing:
\* no new id, no active command, nothing appended to the FIFO; and no claim
\* returns a completed command.
C26_DedupAfterComplete ==
  [][/\ \A sub \in Submissions, key \in Keys :
          (Enqueue(sub, key) /\ KeyGiven(key)) =>
            \A id \in CompletedWithinTtl(key) :
              /\ ret'.val = id
              /\ nextId' = nextId
              /\ commands' = commands
              /\ queue' = queue
              /\ id \notin DOMAIN commands'
              /\ ~InSeq(id, queue')
     /\ Claim("w1", 1, clock) =>
          \A i \in 1..Len(ret'.val) : ret'.val[i] \notin completedIds]_vars

C26_Witness ==
  /\ ret.op = "enqueue"
  /\ ret.val \in completedIds
  /\ ret.val \in resubmitted
  /\ ret.val \notin DOMAIN commands
  /\ issued[ret.val].key = Some("k")
  /\ ret.sub.type # issued[ret.val].type
  /\ queue = << >>

\* C27: a deduplicated enqueue leaves the idempotency entry as it was (same id,
\* same timestamp); only enqueue changes the idempotency index; an enqueue
\* whose non-empty key was last used to create a command more than 30 s ago
\* creates a new command with a new id, whether or not the key was
\* re-submitted in between; and each entry carries the creation time of its
\* command.
C27_TtlFromCreation ==
  [][/\ \A sub \in Submissions, key \in Keys :
          (Enqueue(sub, key) /\ KeyGiven(key)) =>
            /\ nextId' = nextId =>
                 /\ key[1] \in DOMAIN idempotency_index
                 /\ idempotency_index'[key[1]] = idempotency_index[key[1]]
            /\ SameKeyWithinTtl(key) = {} =>
                 /\ nextId' = nextId + 1
                 /\ ret'.val = nextId
                 /\ ret'.val \in DOMAIN commands'
                 /\ idempotency_index'[key[1]] = << nextId, clock >>
     /\ idempotency_index' # idempotency_index =>
          \E sub \in Submissions, key \in Keys : Enqueue(sub, key)
     /\ \A k \in DOMAIN idempotency_index' :
          idempotency_index'[k][2] = issued'[idempotency_index'[k][1]].at]_vars

C27_Witness ==
  /\ ret.op = "enqueue"
  /\ ret.val = 2
  /\ issued[2].key = Some("k") /\ issued[2].at = 2 * TickStep
  /\ issued[1].key = Some("k") /\ issued[1].at = 0
  /\ 1 \in resubmitted
  /\ idempotency_index["k"] = << 2, 2 * TickStep >>

\* C28: the FIFO never holds an id twice; an id is in the FIFO exactly when it
\* is an active command with no visibility deadline and no claimant; a command
\* with a deadline has a claimant and is not in the FIFO.
C28_FifoConsistent ==
  /\ \A i, j \in 1..Len(queue) : queue[i] = queue[j] => i = j
  /\ \A id \in KnownIds \cup SeqRange(queue) :
       InSeq(id, queue) <=>
         /\ id \in DOMAIN commands
         /\ commands[id].visibility_deadline = None
         /\ commands[id].claimed_by = None
  /\ \A id \in DOMAIN commands :
       commands[id].visibility_deadline # None =>
         /\ commands[id].claimed_by # None
         /\ ~InSeq(id, queue)

C28_Witness ==
  /\ Cardinality(DOMAIN commands) = 2
  /\ Len(queue) = 1
  /\ queue[1] \in claimedOnce
  /\ \E id \in DOMAIN commands :
       /\ commands[id].visibility_deadline # None
       /\ commands[id].claimed_by # None

\* the ids of S in increasing order, which is the order of their enqueue
Ascending(S) ==
  CHOOSE q \in [1..Cardinality(S) -> S] : \A i, j \in 1..Cardinality(S) : i < j => q[i] < q[j]

\* the order in which a claim reading the clock at `now` serves the commands:
\* those in the FIFO, then those whose lease has run out
ServiceOrder(now) ==
  queue \o Ascending({id \in DOMAIN commands : LeaseLapsed(id, now)})

\* C29: a claim appends the commands whose lease has run out to the back of
\* the FIFO, in the order of their enqueue, before it hands anything out: it
\* returns the first max_items commands of the FIFO followed by the expired
\* commands and leaves the rest in the FIFO in that order, so an expired
\* command is handed out after every command that was available.
C29_ExpiredToBack ==
  [][\A w \in Workers, m \in MaxItemsArgs, now \in ClockReads :
       (Claim(w, m, now) /\ m >= 1) =>
         LET order == ServiceOrder(now)
             n == IF m < Len(order) THEN m ELSE Len(order)
         IN /\ ret'.val = SubSeq(order, 1, n)
            /\ queue' = SubSeq(order, n + 1, Len(order))]_vars

C29_Witness ==
  /\ ret.op = "claim"
  /\ ret.val = << 2, 1 >>
  /\ 1 \in handed
  /\ commands[2].visibility_deadline = commands[1].visibility_deadline

\* C30: a wait_for_result that returns leaves the waiter table as it is, so
\* the signal of a wait that timed out stays registered under its id; a
\* registered signal leaves the table only by complete(id), which removes all
\* of that id, and otherwise the list of an id only grows.
C30_WaitersLeak ==
  [][/\ \A t \in Threads :
          WaitReturn(t) =>
            /\ waiters' = waiters
            /\ waiter[t].command_id \notin completedIds =>
                 /\ waiter[t].command_id \in DOMAIN waiters'
                 /\ InSeq(waiter[t].evt, waiters'[waiter[t].command_id])
     /\ \A id \in DOMAIN waiters :
          \/ /\ id \in DOMAIN waiters'
             /\ Len(waiters'[id]) >= Len(waiters[id])
             /\ SubSeq(waiters'[id], 1, Len(waiters[id])) = waiters[id]
          \/ Complete(id, OkOutcome) /\ id \notin DOMAIN waiters']_vars

C30_Witness ==
  /\ ret.op = "wait_for_result" /\ ret.woke = "late" /\ ret.val = None
  /\ \A t \in Threads : waiter[t].pc = "idle"
  /\ ret.id \in DOMAIN waiters
  /\ Len(waiters[ret.id]) = 2
  /\ ret.id \in DOMAIN commands

\* C31: complete for an id that enqueue never returned is accepted: it stores a
\* result with the given ok, result and error under that id, leaves the active
\* commands, the FIFO and the idempotency index as they were, and from then on
\* get_result and wait_for_result for that id return the stored result.
C31_CompleteUnknownId ==
  [][/\ numCompletes < MaxCompletes => ENABLED Complete(BogusId, OkOutcome)
     /\ \A o \in Outcomes :
          Complete(BogusId, o) =>
            /\ BogusId \in DOMAIN results'
            /\ results'[BogusId].ok = o.ok
            /\ results'[BogusId].result = o.result
            /\ results'[BogusId].error = o.error
            /\ commands' = commands
            /\ queue' = queue
            /\ idempotency_index' = idempotency_index
     /\ (GetResult(BogusId) /\ BogusId \in completedIds) =>
          ret'.val = Some(results[BogusId])
     /\ (ret'.op = "wait_for_result" /\ ret' # ret /\ ret'.id = BogusId
           /\ BogusId \in completedIds) =>
          ret'.val = Some(results[BogusId])]_vars

C31_Witness ==
  /\ ret.op = "wait_for_result"
  /\ ret.id = BogusId
  /\ ret.woke = "early"
  /\ ret.val # None
  /\ ret.val[1].ok = FALSE
  /\ queue # << >>
  /\ DOMAIN idempotency_index # {}
  /\ \E id \in DOMAIN commands : commands[id].claimed_by # None

\* the uris a flush task has sent or is still to send
FlushUris ==
  {FlushDelivered[i].uri : i \in 1..Len(FlushDelivered)}
    \cup UNION {SeqRange(flushTasks[i]) : i \in 1..Len(flushTasks)}

\* C32: the subscription filter comes before the buffering: with no session
\* attached and a non-empty subscription set that lacks x, notify_updated(x)
\* changes nothing (x is not added to the buffer); and every uri in the buffer
\* or handed to the flush of attach_session passed the filter when it was
\* notified.
C32_FilterBeforeBuffer ==
  [][/\ \A c \in NotifyCallers, uri \in NotifyUris :
          (/\ NotifyUpdated(c, uri)
           /\ session = None
           /\ subscribed_uris # {}
           /\ uri \notin subscribed_uris) =>
            /\ ret'.outcome = "dropped"
            /\ buffered' = buffered
            /\ queued' = queued
            /\ UNCHANGED <<session, subscribed_uris, emitting, flushTasks, delivered>>
     /\ \A uri \in buffered' \cup FlushUris' : InSeq(uri, queued')
     /\ \A c \in NotifyCallers, uri \in NotifyUris :
          NotifyUpdated(c, uri) =>
            (queued' # queued => (subscribed_uris = {} \/ uri \in subscribed_uris))]_vars

C32_Witness ==
  /\ ret.op = "attach_session" /\ ~ret.noop
  /\ subscribed_uris = {StatusUri}
  /\ numNotifies = 2
  /\ queued = << StatusUri >>
  /\ Len(flushTasks) = 1
  /\ flushTasks[1] = << StatusUri >>
  /\ delivered = << >>
  /\ \A c \in NotifyCallers : emitting[c].pc = "idle"

\* C33: unsubscribe removes the uri and nothing else, so unsubscribing the
\* last uri leaves the subscription set empty; and with an empty subscription
\* set notify_updated drops nothing: it buffers the uri when no session is
\* attached and otherwise starts sending it on the attached session.
C33_EmptySetBroadcasts ==
  [][/\ \A uri \in NotifyUris :
          Unsubscribe(uri) =>
            /\ subscribed_uris' = subscribed_uris \ {uri}
            /\ subscribed_uris = {uri} => subscribed_uris' = {}
     /\ \A c \in NotifyCallers, uri \in NotifyUris :
          (NotifyUpdated(c, uri) /\ subscribed_uris = {}) =>
            /\ ret'.outcome # "dropped"
            /\ session = None =>
                 /\ uri \in buffered'
                 /\ queued' = Append(queued, uri)
            /\ session # None =>
                 /\ emitting'[c] = [pc |-> "emit", uri |-> uri, session |-> session[1]]
                 /\ buffered' = buffered]_vars

C33_Witness ==
  /\ ret.op = "notify_updated"
  /\ ret.outcome = "emitting"
  /\ ret.uri = LogsUri
  /\ subscribed_uris = {}
  /\ numNotifies = 2
  /\ queued = << >>
  /\ Len(delivered) = 1
  /\ delivered[1].uri = LogsUri
  /\ delivered[1].via = "notify"
  /\ \A c \in NotifyCallers : emitting[c].pc = "idle"

\* C34: the subscription filter is not applied again after notify_updated: a
\* new attach hands the whole buffer to the flush task and each flush step
\* sends its uri on the attached session, whatever the subscription set holds
\* by then.
C34_FilterOnlyAtNotify ==
  [][/\ \A s \in Sessions :
          (AttachSession(s) /\ session # Some(s) /\ buffered # {}) =>
            /\ Len(flushTasks') = Len(flushTasks) + 1
            /\ Len(flushTasks'[Len(flushTasks')]) = Cardinality(buffered)
            /\ SeqRange(flushTasks'[Len(flushTasks')]) = buffered
     /\ \A i \in 1..Len(flushTasks) :
          (FlushStep(i) /\ session # None) =>
            delivered' = Append(delivered, [session |-> session[1],
                                            uri |-> Head(flushTasks[i]),
                                            via |-> "flush"])]_vars

C34_Witness ==
  /\ ret.op = "attach_session" /\ ~ret.noop
  /\ subscribed_uris = {StatusUri}
  /\ queued = << LogsUri >>
  /\ flushTasks = << >>
  /\ Len(delivered) = 1
  /\ delivered[1].uri = LogsUri
  /\ delivered[1].via = "flush"

\* C35: attach_session sends nothing itself: a new attach with a non-empty
\* buffer returns with the buffered uris handed to a flush task that has not
\* run yet, and while that task still holds uris a notify_updated can take the
\* attached session and go on to send; the sends of the flush task and of such
\* a notify therefore come in either order.
C35_FlushNotAwaited ==
  [][/\ \A s \in Sessions :
          AttachSession(s) =>
            /\ delivered' = delivered
            /\ (session # Some(s) /\ buffered # {}) =>
                 /\ flushTasks' # << >>
                 /\ Len(flushTasks'[Len(flushTasks')]) = Cardinality(buffered)
     /\ \A c \in NotifyCallers, uri \in NotifyUris :
          (/\ NotifyUpdated(c, uri)
           /\ flushTasks # << >>
           /\ session # None
           /\ ~FilteredOut(subscribed_uris, uri)) =>
            /\ emitting'[c].pc = "emit"
            /\ emitting'[c].session = session[1]
            /\ flushTasks' = flushTasks]_vars

C35_Witness ==
  /\ queued = << StatusUri >>
  /\ Len(delivered) = 2
  /\ delivered[1] = [session |-> "s1", uri |-> LogsUri, via |-> "notify"]
  /\ delivered[2] = [session |-> "s1", uri |-> StatusUri, via |-> "flush"]
  /\ flushTasks = << >>

NotifyCalled == numNotifies' = numNotifies + 1

C38_Original ==
  [][(GetLastHeartbeat /\ observed # None) =>
       ret'.val[1].received_at >= observed[1].received_at]_vars

\* the step is the return of a collection-set call whose wait_for_result
\* returned the stored result of its command
RepliesCompleted ==
  /\ tool["t1"].kind = "collection_set"
  /\ tool["t1"].command_id \in DOMAIN results
  /\ \/ ToolReturn("t1")
     \/ ToolAwait("t1") /\ tool["t1"].wait_timeout_sec > 0

\* C39 as stated: the reply is "ok" only for ok = true with a result payload;
\* for ok = true without payload it is "error" with error "Unknown error"; for
\* ok = false it is "error" with the stored error string.
C39_Original ==
  [][RepliesCompleted =>
       LET r == results[tool["t1"].command_id]
       IN /\ ret'.val.status = "ok" <=> (r.ok /\ r.result # None)
          /\ (r.ok /\ r.result = None) =>
               (ret'.val.status = "error" /\ ret'.val.error = Some("Unknown error"))
          /\ ~r.ok => (ret'.val.status = "error" /\ ret'.val.error = r.error)]_vars

\* C39 amended: the reply is "ok", with the payload, exactly for ok = true with
\* a result payload; every other completion is replied "error" with no result,
\* and the error is the stored error string when there is one and it is not
\* empty, and "Unknown error" otherwise.
C39_ReplyMapping ==
  [][RepliesCompleted =>
       LET r == results[tool["t1"].command_id]
           stored == r.error # None /\ r.error # Some("")
       IN /\ ret'.op = "call"
          /\ ret'.val.command_id = Some(tool["t1"].command_id)
          /\ ret'.val.status = "ok" <=> (r.ok /\ r.result # None)
          /\ ret'.val.status = "ok" => (ret'.val.result = r.result /\ ret'.val.error = None)
          /\ ~(r.ok /\ r.result # None) =>
               /\ ret'.val.status = "error"
               /\ ret'.val.result = None
               /\ ret'.val.error = IF stored THEN r.error ELSE Some("Unknown error")]_vars

C39_Witness ==
  /\ ret.op = "call"
  /\ ret.val.status = "error"
  /\ ret.val.error = Some("e1")
  /\ ret.val.command_id # None
  /\ ret.val.command_id[1] \in DOMAIN results
  /\ results[ret.val.command_id[1]].ok
  /\ results[ret.val.command_id[1]].result = None
  /\ tool["t1"].pc = "idle"
====
